---------------------------- MODULE Spec2Model ----------------------------
(***************************************************************************)
(* A state-machine model of the convergence pipeline of the billing        *)
(* engine: the SQS consumer loop (app/clients/sqs_client.py), the usage     *)
(* event handler (app/consumers/usage_events.py), the Stripe event handler  *)
(* (app/consumers/stripe_events.py), the synchronous usage path             *)
(* (app/services/usage_service.py) and the entitlement cache and usage      *)
(* counters kept in Redis (app/services/entitlement_service.py,             *)
(* app/core/redis.py).                                                      *)
(*                                                                          *)
(* Conventions.                                                             *)
(*  - A consumer task is a sequential process; pc[q] is its position.  A    *)
(*    position other than "handle" is a point where the task is suspended   *)
(*    in an await that really yields to the event loop (asyncio.to_thread,  *)
(*    a Redis command, asyncio.sleep).  The Stripe client methods are       *)
(*    "async def" around blocking SDK calls and never yield, so the code    *)
(*    between two suspension points is one step.                            *)
(*  - Task.cancel() raises CancelledError at the await the task is          *)
(*    suspended in.  CancelledError is a BaseException, which the loop's    *)
(*    "except Exception" clauses do not catch.                              *)
(*  - Provider (Stripe), queue (SQS) and store (Redis) calls may fail; a    *)
(*    failure is a nondeterministic outcome of the call.                    *)
(*  - Usage values are numbers; the model uses small integers.  None is     *)
(*    the string "none"; a missing Redis key is Absent.                     *)
(*  - dl is a history of deliveries: one record per message handed out by   *)
(*    a receive call, indexed by its receipt handle.                        *)
(***************************************************************************)
EXTENDS Integers, Sequences, FiniteSets, TLC

\* ------------------------------------------------------------- bounds ----
\* Number of messages that exist in the queues.
MaxMsgs == 2
\* Number of deliveries (receipt handles) the queues hand out in one run.
MaxDeliveries == 2
\* Number of API requests in flight at the same time.
MaxConcurrent == 2
\* record() calls are followed while the provider's total of the meter
\* stays within this.
MaxUsage == 2
\* The passing of time is followed while the clock is below this.
MaxTime == 2

\* --------------------------------------------------- program constants ----
\* consume_loop(max_messages=10)
max_messages == 10
\* asyncio.sleep(5) after a failed poll
PollBackoffSeconds == 5
\* settings.ENTITLEMENT_CACHE_TTL, in seconds
ENTITLEMENT_CACHE_TTL == 120
\* ttl_seconds of reset_usage_counter: 35 days
COUNTER_TTL == 86400 * 35

None == "none"
Absent == -1

Topics == {"usage", "stripe", "payment"}
Workspaces == {"ws_1", "ws_2"}
MsgIds == 1..MaxMsgs

\* UsageEventType (app/models/enums.py)
UsageEventType == {"ai_credits", "whatsapp_message", "email_send", "sms_send"}
\* The order in which "for meter in UsageEventType" visits the members.
UsageEventTypeSeq == <<"ai_credits", "whatsapp_message", "email_send", "sms_send">>
\* Meter names for which _fetch_entitlements_from_stripe reads a limit.
SnapshotMeters == {"ai_credits", "whatsapp_messages", "email_sends"}
\* Every meter string that appears in a counter key.
MeterKeys == UsageEventType \cup SnapshotMeters

\* EVENT_TYPE_TO_METER.get(event_type): the Stripe meter event name, or None.
EVENT_TYPE_TO_METER(et) ==
  CASE et = "ai_credits" -> "ai_credits"
    [] et = "whatsapp_message" -> "whatsapp_messages"
    [] et = "email_send" -> "email_sends"
    [] OTHER -> None


\* ------------------------------------------------------------ messages ----
\* A queue message.  json: msg["Body"] is valid JSON.  envelope: "plain"
\* (the body is the event), "sns" (a notification wrapper with "Message" and
\* "TopicArn" whose Message is the JSON text of the event) or "sns_bad" (a
\* wrapper whose Message is not valid JSON).  The other fields are those of
\* the event: for a usage event workspace_id, event_type and value (valKind
\* "num", "missing" when the key is absent, "text" when it is no number);
\* for a Stripe event event_type, the workspace ids found in
\* data.object.metadata and data.object.customer.metadata, and whether
\* "current_period_start" is a key of data.object.previous_attributes
\* (obj_prev) and of data.previous_attributes (data_prev); for an invoice
\* event also whether data.object.subscription is an object (sub_dict), the
\* workspace id in its metadata (sub_ws) and the workspace id of the first
\* line item whose metadata has one (line_ws).
Msg(topic, json, envelope, ws, et, valKind, value, cust_ws, obj_prev, data_prev) ==
  [topic |-> topic, json |-> json, envelope |-> envelope,
   workspace_id |-> ws, event_type |-> et, valKind |-> valKind, value |-> value,
   cust_ws |-> cust_ws, obj_prev |-> obj_prev, data_prev |-> data_prev,
   sub_dict |-> FALSE, sub_ws |-> None, line_ws |-> None,
   source |-> None, invoice |-> None, notes_invoice |-> None, notes_ws |-> None]

UsageMsg(ws, et, valKind, value) ==
  Msg("usage", TRUE, "plain", ws, et, valKind, value, None, FALSE, FALSE)

\* The usage messages the usage queue is populated from: a metered event, a
\* metered event inside a notification wrapper, an event of a workspace
\* without provider customer, and a body that is not JSON.
UsageBodies ==
  << UsageMsg("ws_2", "ai_credits", "num", 1),
     [UsageMsg("ws_2", "whatsapp_message", "num", 2) EXCEPT !.envelope = "sns"],
     UsageMsg("ws_1", "ai_credits", "num", 1),
     [UsageMsg("ws_2", "ai_credits", "num", 1) EXCEPT !.json = FALSE] >>

\* Usage messages that fail the handler's validation, each in one way: no
\* workspace id, no event type, value 0, a negative value, no value key; and
\* a well-formed one.
MalformedBodies ==
  << UsageMsg(None, "ai_credits", "num", 1),
     UsageMsg("ws_2", None, "num", 1),
     UsageMsg("ws_2", "ai_credits", "num", 0),
     UsageMsg("ws_2", "ai_credits", "num", -1),
     UsageMsg("ws_2", "ai_credits", "missing", 0),
     UsageMsg("ws_2", "ai_credits", "num", 1) >>

\* Usage messages the loop or the handler cannot read: a body that is not
\* JSON, a notification wrapper whose Message is not JSON, a value that is
\* no number; and a well-formed one.
UnparseableBodies ==
  << [UsageMsg("ws_2", "ai_credits", "num", 1) EXCEPT !.json = FALSE],
     [UsageMsg("ws_2", "ai_credits", "num", 1) EXCEPT !.envelope = "sns_bad"],
     UsageMsg("ws_2", "ai_credits", "text", 0),
     UsageMsg("ws_2", "ai_credits", "num", 1) >>

\* A Stripe event as the webhook receiver enqueues it.
StripeMsg(et, ws, cust_ws, obj_prev, data_prev) ==
  Msg("stripe", TRUE, "plain", ws, et, "missing", 0, cust_ws, obj_prev, data_prev)

\* stripe_webhook: the message enqueued for a provider event of type et
\* about an object of workspace ws, renewal telling whether the event's
\* previous attributes contain current_period_start.  "data" is
\* dict(event["data"]): the object under data.object, the previous
\* attributes beside it under data.previous_attributes.
stripe_webhook(et, ws, renewal) == StripeMsg(et, ws, None, FALSE, renewal)

\* The billing messages the Stripe queue is populated from: a subscription
\* update whose object carries the previous period start, and one as the
\* webhook receiver enqueues it for a renewal.
StripeBodies ==
  << StripeMsg("customer.subscription.updated", "ws_2", None, TRUE, FALSE),
     stripe_webhook("customer.subscription.updated", "ws_2", TRUE) >>

\* An invoice event: ws the workspace id in the invoice's metadata, sub_dict
\* whether data.object.subscription is an object, sub_ws the workspace id in
\* that object's metadata, line_ws the workspace id of the first line item
\* whose metadata has one.
InvoiceMsg(et, ws, sub_dict, sub_ws, line_ws) ==
  [StripeMsg(et, ws, None, FALSE, FALSE) EXCEPT
     !.sub_dict = sub_dict, !.sub_ws = sub_ws, !.line_ws = line_ws]

\* Billing events of the five types whose handlers invalidate, the
\* workspace id at each place the handlers look for it.
InvalidatingBodies ==
  << StripeMsg("customer.subscription.created", "ws_2", None, FALSE, FALSE),
     StripeMsg("customer.subscription.updated", "ws_2", None, FALSE, FALSE),
     StripeMsg("customer.subscription.deleted", None, "ws_2", FALSE, FALSE),
     InvoiceMsg("invoice.paid", "ws_2", FALSE, None, None),
     InvoiceMsg("invoice.payment_failed", None, TRUE, "ws_2", None),
     InvoiceMsg("invoice.paid", None, FALSE, None, "ws_2") >>

\* Billing events that call for no action: the notification-only types, a
\* type the dispatch does not know, a subscription and an invoice event
\* without workspace id anywhere; and, last, one that invalidates.
NonActionableBodies ==
  << StripeMsg("customer.subscription.trial_will_end", "ws_2", None, FALSE, FALSE),
     InvoiceMsg("invoice.upcoming", "ws_2", FALSE, None, None),
     StripeMsg("billing.meter.usage_reported", "ws_2", None, FALSE, FALSE),
     StripeMsg("charge.refunded", "ws_2", None, FALSE, FALSE),
     StripeMsg("customer.subscription.updated", None, None, TRUE, FALSE),
     InvoiceMsg("invoice.paid", None, FALSE, None, None),
     StripeMsg("customer.subscription.deleted", "ws_1", None, FALSE, FALSE) >>

\* A payment event: its source and type, the top-level workspace_id and
\* stripe_invoice_id, and the stripe_invoice_id and workspace_id in the notes
\* of the payment entity under metadata.payload.
PaymentMsg(source, et, ws, invoice, notes_invoice, notes_ws) ==
  [Msg("payment", TRUE, "plain", ws, et, "missing", 0, None, FALSE, FALSE) EXCEPT
     !.source = source, !.invoice = invoice, !.notes_invoice = notes_invoice,
     !.notes_ws = notes_ws]

\* The payment messages: a captured and a manually reconciled payment with
\* invoice and workspace id, a manual one without workspace id; a captured
\* and a manual one without invoice id, a failed payment, an event of an
\* unknown source and one of the accounting system.
PaymentBodies ==
  << PaymentMsg("razorpay", "payment.captured", None, None, "in_1", "ws_2"),
     PaymentMsg("manual_reconciliation", "payment.captured", "ws_2", "in_1", None, None),
     PaymentMsg("manual_reconciliation", "payment.captured", None, "in_1", None, None),
     PaymentMsg("razorpay", "payment.captured", "ws_2", "in_1", None, "ws_2"),
     PaymentMsg("manual_reconciliation", "payment.captured", "ws_2", None, "in_1", "ws_2"),
     PaymentMsg("razorpay", "payment.failed", "ws_2", "in_1", "in_1", "ws_2"),
     PaymentMsg("paypal", "payment.captured", "ws_2", "in_1", "in_1", "ws_2"),
     PaymentMsg("zoho_books", "payment.captured", "ws_2", "in_1", "in_1", "ws_2") >>

\* One message for each consumer: a usage event, a period renewal and a
\* captured payment.
ShutdownBodies ==
  << UsageMsg("ws_2", "ai_credits", "num", 1),
     StripeMsg("customer.subscription.updated", "ws_2", None, TRUE, FALSE),
     PaymentMsg("razorpay", "payment.captured", None, None, "in_1", "ws_2") >>

\* Invoice events by where the workspace id is: in the invoice's metadata;
\* in the subscription object's; in a line item's, the subscription being an
\* id; in a line item's, the subscription being an object without one;
\* nowhere.
InvoiceBodies ==
  << InvoiceMsg("invoice.paid", "ws_2", TRUE, "ws_1", "ws_1"),
     InvoiceMsg("invoice.paid", None, TRUE, "ws_2", "ws_1"),
     InvoiceMsg("invoice.payment_failed", None, FALSE, None, "ws_2"),
     InvoiceMsg("invoice.payment_failed", None, TRUE, None, "ws_2"),
     InvoiceMsg("invoice.paid", None, TRUE, None, None) >>

\* Well-formed usage messages with nothing to meter them into: a workspace
\* without provider customer, an event type of the enumeration without
\* provider meter, an event type outside the enumeration; and one that is
\* metered.
NotFoundBodies ==
  << UsageMsg("ws_1", "ai_credits", "num", 1),
     UsageMsg("ws_2", "sms_send", "num", 1),
     UsageMsg("ws_2", "page_view", "num", 2),
     UsageMsg("ws_2", "email_send", "num", 1) >>

\* ---------------------------------------------------------------- state ----
VARIABLES
  body,       \* body[m]: the message m
  vis,        \* vis[m]: "visible", "inflight" (received, hidden) or "deleted"
  expc,       \* expc[m]: how often m's visibility timeout has elapsed
  dl,         \* the deliveries so far, indexed by receipt handle
  pc,         \* pc[q]: position of the consumer task of topic q
  batch,      \* batch[q]: receipt handles of the batch being processed
  idx,        \* idx[q]: position in batch[q] of the message being processed
  ridx,       \* ridx[q]: position in UsageEventTypeSeq of the reset loop
  fails,      \* fails[q]: consecutive failed polls (0, 1, or 2 for two or more)
  delay,      \* delay[q]: seconds the task sleeps for when pc[q] = "sleep"
  customers,  \* workspaces for which the provider holds a customer
  metered,    \* metered[<<w, meter_name>>]: provider total of meter events
  subs,       \* subs[w]: <<>> or <<s>>, s the subscription of w's customer
  counter,    \* counter[<<w, meter>>]: Redis key usage:{w}:{meter}, or Absent
  expiry,     \* expiry[<<w, meter>>]: the time at which that key expires, or
              \* Absent when it has no expiry (or does not exist)
  cache,      \* cache[w]: Redis key entitlements:{w}: <<>> when there is no
              \* such key, else <<snap, exp>>, exp the time at which it expires
  now,        \* the time in seconds since the start
  base,       \* base[k]: value of counter k at the start or after its last SET
  incs,       \* incs[k]: amounts of the increments applied to k since then
  req         \* req[i]: the API request in flight in slot i

queueVars == <<body, vis, expc, dl>>
loopVars == <<pc, batch, idx, ridx, fails, delay>>
providerVars == <<customers, metered, subs>>
storeVars == <<counter, expiry, cache, now, base, incs>>
apiVars == <<req>>
vars == <<queueVars, loopVars, providerVars, storeVars, apiVars>>

CounterKeys == Workspaces \X MeterKeys
MeterNames == SnapshotMeters
MeteredKeys == Workspaces \X MeterNames

\* ----------------------------------------------------- key-value store ----
\* RedisClient.get_float: float(val) if val else 0.0
get_float(store, key) == IF store[key] = Absent THEN 0 ELSE store[key]

\* An increment done as a GET followed by a SET, the GET having read the
\* value the key had before the concurrent increments (a lost update).
increment_float_get_set(store, key, amount) ==
  [store EXCEPT ![key] = base[key] + amount]

\* RedisClient.increment_float: INCRBYFLOAT key amount (atomic in Redis; a
\* missing key counts as 0).  The new store.
increment_float(store, key, amount) ==
  [store EXCEPT ![key] = get_float(store, key) + amount]

\* RedisClient.set_with_ttl: SETEX key ttl value.
set_with_ttl(store, key, value) == [store EXCEPT ![key] = value]

\* The expiry of a key after INCRBYFLOAT: the command leaves the expiry of
\* an existing key alone and creates a missing key without one.
increment_float_expiry(exp, key) == exp

\* The expiry of a key after SETEX key ttl value at time t.
set_with_ttl_expiry(exp, key, t, ttl_seconds) == [exp EXCEPT ![key] = t + ttl_seconds]

\* A key with expiry time e is gone at time t.
expired(e, t) == e # Absent /\ e <= t

\* USAGE_COUNTER_KEY.format(workspace_id=w, meter=meter)
USAGE_COUNTER_KEY(w, meter) == <<w, meter>>

\* ENTITLEMENT_KEY.format(workspace_id=w): the cache is indexed by w.
\* RedisClient.get_cached_json: None when the key is missing, else the
\* stored snapshot.  GET leaves the key's expiry alone.
get_cached_json(store, w) == IF store[w] = <<>> THEN <<>> ELSE <<store[w][1]>>

\* A SETEX that stores the key without expiry.
set_cached_json_forever(store, w, snap, ttl_seconds) ==
  [store EXCEPT ![w] = <<snap, Absent>>]

\* RedisClient.set_cached_json: SETEX key ttl json.  The key expires
\* ttl_seconds after the command.
set_cached_json(store, w, snap, ttl_seconds) ==
  [store EXCEPT ![w] = <<snap, now + ttl_seconds>>]

\* A delete that, when the key is missing, drops every key.
delete_cached_sweeps(store, w) ==
  IF store[w] = <<>> THEN [v \in DOMAIN store |-> <<>>]
  ELSE [store EXCEPT ![w] = <<>>]

\* RedisClient.delete_cached: DEL key (no error when the key is missing).
delete_cached(store, w) == [store EXCEPT ![w] = <<>>]

\* The sum of a sequence of amounts.
RECURSIVE SumSeq(_)
SumSeq(sq) == IF sq = <<>> THEN 0 ELSE Head(sq) + SumSeq(Tail(sq))

\* ------------------------------------------------------------ the queue ----
\* A delivery: the message, its state in the per-message state machine
\* ("received", "processing", "acked", "abandoned"), the number of handler
\* calls and delete calls made for it, how the handler ended ("none",
\* "returned", "raised", "cancelled"), what raised (err), whether the
\* provider push succeeded, how the counter increment ended ("none", "ok",
\* "failed"), whether the cache entry was deleted, and the meters reset.
NewDelivery(m) ==
  [msg |-> m, st |-> "received", calls |-> 0, deletes |-> 0, res |-> "none",
   err |-> "none", pushed |-> FALSE, incr |-> "none", inval |-> FALSE,
   resets |-> {}, paid |-> FALSE]

Visible(q) == {m \in MsgIds : body[m].topic = q /\ vis[m] = "visible"}

\* The least element of S.
Min(S) == CHOOSE x \in S : \A y \in S : x <= y

\* The sequences without repetition over the elements of S.
RECURSIVE SeqsOver(_)
SeqsOver(S) ==
  IF S = {} THEN {<<>>}
  ELSE UNION {{<<x>> \o t : t \in SeqsOver(S \ {x})} : x \in S}

\* The messages a running consumer task still holds in its current batch.
Held ==
  {dl[batch[q][i]].msg : <<q, i>> \in
     {x \in Topics \X (1..MaxDeliveries) :
        pc[x[1]] \notin {"off", "cancelled"} /\ x[2] \in DOMAIN batch[x[1]]}}

\* A queue whose redrive policy moves a message aside once a delivery of it
\* was not deleted in time.
visibility_timeout_redrive(m) ==
  /\ vis[m] = "inflight"
  /\ m \notin Held
  /\ pc[body[m].topic] \notin {"off", "cancelled"}
  /\ vis' = [vis EXCEPT ![m] = "deleted"]
  /\ expc' = [expc EXCEPT ![m] = @ + 1]
  /\ UNCHANGED <<body, dl, loopVars, providerVars, storeVars, apiVars>>

\* The visibility timeout of an in-flight message elapses.  A consumer is
\* taken to finish a batch within the timeout, so the message is one that
\* no running consumer holds; and the timeout is followed only while the
\* topic's consumer runs and can receive the message again.
visibility_timeout(m) ==
  /\ vis[m] = "inflight"
  /\ m \notin Held
  /\ pc[body[m].topic] \notin {"off", "cancelled"}
  /\ vis' = [vis EXCEPT ![m] = "visible"]
  /\ expc' = [expc EXCEPT ![m] = @ + 1]
  /\ UNCHANGED <<body, dl, loopVars, providerVars, storeVars, apiVars>>

\* -------------------------------------------------- the consumer loop ----
\* SQSClient.consume_loop, one task per topic.  Positions: "off" (the queue
\* URL is not configured, no task), "poll" (in receive_message), "sleep"
\* (in asyncio.sleep after a failed poll), "take" (the for loop is at its
\* next message), "handle" (json.loads, unwrap and the handler up to its
\* first await that yields), "incr", "inval", "reset" (the handler is
\* suspended in a Redis command), "delete" (in delete_message),
\* "cancelled" (the task ended with CancelledError).
\* pc[Lifespan] is the position of the application's lifespan: "serving"
\* (at its yield), the topic whose cancelled task it awaits, "complete".
Lifespan == "lifespan"
Cur(q) == batch[q][idx[q]]
LastOfBatch(q) == idx[q] = Len(batch[q])

goto(q, p) ==
  /\ pc' = [pc EXCEPT ![q] = p]
  /\ ridx' = [ridx EXCEPT ![q] = 0]
  /\ UNCHANGED <<batch, idx, fails, delay>>

\* The for loop moves to its next message; after the last one "while True"
\* polls again.
next_message(q) ==
  /\ pc' = [pc EXCEPT ![q] = IF LastOfBatch(q) THEN "poll" ELSE "take"]
  /\ idx' = [idx EXCEPT ![q] = IF LastOfBatch(q) THEN 0 ELSE @ + 1]
  /\ batch' = [batch EXCEPT ![q] = IF LastOfBatch(q) THEN <<>> ELSE @]
  /\ ridx' = [ridx EXCEPT ![q] = 0]
  /\ UNCHANGED <<fails, delay>>

\* A loop that forgets the delete after a successful handler.
handler_returned_no_delete(q, d, r) ==
  /\ dl' = [dl EXCEPT ![d] = [r EXCEPT !.res = "returned", !.st = "abandoned"]]
  /\ next_message(q)

\* "await handler(body)" returned: the loop goes on to delete_message with
\* the delivery's receipt handle.  r is the delivery record as the handler
\* left it.
handler_returned(q, d, r) ==
  /\ dl' = [dl EXCEPT ![d] = [r EXCEPT !.res = "returned", !.deletes = @ + 1]]
  /\ goto(q, "delete")

\* A loop that deletes the message in a "finally", also when the handler
\* raised.
handler_raised_deletes(q, d, r, err) ==
  /\ dl' = [dl EXCEPT ![d] = [r EXCEPT !.res = "raised", !.err = err,
                                        !.deletes = @ + 1]]
  /\ goto(q, "delete")

\* A loop whose per-message failure ends the batch: the exception reaches
\* the handler of the while body's try, and the loop polls again.
handler_raised_ends_batch(q, d, r, err) ==
  /\ dl' = [dl EXCEPT ![d] = [r EXCEPT !.res = "raised", !.err = err,
                                        !.st = "abandoned"]]
  /\ pc' = [pc EXCEPT ![q] = "poll"]
  /\ idx' = [idx EXCEPT ![q] = 0]
  /\ batch' = [batch EXCEPT ![q] = <<>>]
  /\ ridx' = [ridx EXCEPT ![q] = 0]
  /\ UNCHANGED <<fails, delay>>

\* An exception inside the per-message try (json.loads, the handler):
\* "except Exception" logs it and the for loop goes on; no delete.
handler_raised(q, d, r, err) ==
  /\ dl' = [dl EXCEPT ![d] = [r EXCEPT !.res = "raised", !.err = err,
                                        !.st = "abandoned"]]
  /\ next_message(q)

\* A backoff that grows with the number of consecutive failures.
poll_backoff_growing(n) == PollBackoffSeconds * n

\* The seconds slept after the n-th consecutive failed poll.
poll_backoff(n) == PollBackoffSeconds

\* client.receive_message returns or raises.
receive_message(q) ==
  /\ pc[q] = "poll"
  /\ \/ \* the call raises: "except Exception" of the while body, then sleep
        /\ pc' = [pc EXCEPT ![q] = "sleep"]
        /\ fails' = [fails EXCEPT ![q] = IF @ = 0 THEN 1 ELSE 2]
        /\ delay' = [delay EXCEPT ![q] = poll_backoff(fails'[q])]
        /\ UNCHANGED <<batch, idx, ridx, queueVars>>
     \/ \* no messages: continue
        /\ fails' = [fails EXCEPT ![q] = 0]
        /\ UNCHANGED <<pc, batch, idx, ridx, delay, queueVars>>
     \/ \* a batch of visible messages, which become hidden
        \E S \in SUBSET Visible(q) :
          /\ S # {}
          /\ Cardinality(S) <= max_messages
          /\ Len(dl) + Cardinality(S) <= MaxDeliveries
          /\ \E sq \in SeqsOver(S) :
               /\ dl' = dl \o [i \in 1..Len(sq) |-> NewDelivery(sq[i])]
               /\ batch' = [batch EXCEPT ![q] = [i \in 1..Len(sq) |-> Len(dl) + i]]
          /\ vis' = [m \in MsgIds |-> IF m \in S THEN "inflight" ELSE vis[m]]
          /\ idx' = [idx EXCEPT ![q] = 1]
          /\ pc' = [pc EXCEPT ![q] = "take"]
          /\ fails' = [fails EXCEPT ![q] = 0]
          /\ UNCHANGED <<body, expc, ridx, delay>>
  /\ UNCHANGED <<providerVars, storeVars, apiVars>>

\* asyncio.sleep(5) is over; the while loop polls again.
sleep_done(q) ==
  /\ pc[q] = "sleep"
  /\ pc' = [pc EXCEPT ![q] = "poll"]
  /\ delay' = [delay EXCEPT ![q] = 0]
  /\ UNCHANGED <<batch, idx, ridx, fails, queueVars, providerVars, storeVars, apiVars>>

\* for msg in messages: receipt_handle = msg["ReceiptHandle"]; try: ...
take_message(q) ==
  /\ pc[q] = "take"
  /\ dl' = [dl EXCEPT ![Cur(q)].st = "processing"]
  /\ goto(q, "handle")
  /\ UNCHANGED <<body, vis, expc, providerVars, storeVars, apiVars>>

\* json.loads(msg["Body"]): the top-level object.  A notification wrapper
\* has the keys "Message" and "TopicArn" and none of the event's.
TopLevel(b) ==
  IF b.envelope = "plain" THEN b
  ELSE [b EXCEPT !.workspace_id = None, !.event_type = None,
                 !.valKind = "missing", !.value = 0, !.cust_ws = None,
                 !.obj_prev = FALSE, !.data_prev = FALSE,
                 !.sub_dict = FALSE, !.sub_ws = None, !.line_ws = None,
                 !.source = None, !.invoice = None, !.notes_invoice = None,
                 !.notes_ws = None]

\* if "Message" in body and "TopicArn" in body: body = json.loads(body["Message"])
unwrap(b) ==
  IF b.envelope # "plain" THEN [b EXCEPT !.envelope = "plain"] ELSE TopLevel(b)

\* A loop that takes a body it cannot parse for an empty object.
parse_ok_lenient(b) == TRUE

\* Neither json.loads raises.
parse_ok(b) == b.json /\ b.envelope # "sns_bad"

\* ---------------------------------------------- the usage event handler ----
\* A handler that validates the event after the customer search.
handle_usage_event_validates_late(ev, lookup_ok, push_ok) ==
  IF ev.valKind = "text" THEN "raise_value"
  ELSE LET value == IF ev.valKind = "missing" THEN 0 ELSE ev.value IN
    IF ~lookup_ok THEN "raise_lookup"
    ELSE IF ev.workspace_id = None \/ ev.event_type = None \/ value <= 0
      THEN "drop_invalid"
    ELSE IF ev.workspace_id \notin customers THEN "drop_no_customer"
    ELSE IF EVENT_TYPE_TO_METER(ev.event_type) = None THEN "drop_unknown_type"
    ELSE IF ~push_ok THEN "raise_push"
    ELSE "pushed"

\* A handler that logs a failed meter push and returns.
handle_usage_event_swallows_push(ev, lookup_ok, push_ok) ==
  IF ev.valKind = "text" THEN "raise_value"
  ELSE LET value == IF ev.valKind = "missing" THEN 0 ELSE ev.value IN
    IF ev.workspace_id = None \/ ev.event_type = None \/ value <= 0
      THEN "drop_invalid"
    ELSE IF ~lookup_ok THEN "raise_lookup"
    ELSE IF ev.workspace_id \notin customers THEN "drop_no_customer"
    ELSE IF EVENT_TYPE_TO_METER(ev.event_type) = None THEN "drop_unknown_type"
    ELSE IF ~push_ok THEN "drop_push_failed"
    ELSE "pushed"

\* A handler that pushes without looking at the result of the customer
\* search.
handle_usage_event_unchecked_customer(ev, lookup_ok, push_ok) ==
  IF ev.valKind = "text" THEN "raise_value"
  ELSE LET value == IF ev.valKind = "missing" THEN 0 ELSE ev.value IN
    IF ev.workspace_id = None \/ ev.event_type = None \/ value <= 0
      THEN "drop_invalid"
    ELSE IF ~lookup_ok THEN "raise_lookup"
    ELSE IF EVENT_TYPE_TO_METER(ev.event_type) = None THEN "drop_unknown_type"
    ELSE IF ~push_ok THEN "raise_push"
    ELSE "pushed"

\* handle_usage_event up to its first await that yields (the Redis
\* increment): how it ends, given whether the customer search and the meter
\* push succeed.  "raise_*": an exception leaves the handler; "drop_*": the
\* handler returns without effect; "pushed": the meter event is created.
handle_usage_event(ev, lookup_ok, push_ok) ==
  IF ev.valKind = "text" THEN "raise_value"
  ELSE LET value == IF ev.valKind = "missing" THEN 0 ELSE ev.value IN
    IF ev.workspace_id = None \/ ev.event_type = None \/ value <= 0
      THEN "drop_invalid"
    ELSE IF ~lookup_ok THEN "raise_lookup"
    ELSE IF ev.workspace_id \notin customers THEN "drop_no_customer"
    ELSE IF EVENT_TYPE_TO_METER(ev.event_type) = None THEN "drop_unknown_type"
    ELSE IF ~push_ok THEN "raise_push"
    ELSE "pushed"

\* A push that is sent twice.
create_meter_event_twice(w, meter_name, value) ==
  [metered EXCEPT ![<<w, meter_name>>] = @ + value + value]

\* stripe_client.create_meter_event(event_name, customer, value): the
\* provider's totals after it.
create_meter_event(w, meter_name, value) ==
  [metered EXCEPT ![<<w, meter_name>>] = @ + value]

\* increment_usage_counter(workspace_id, meter, value): the store after it.
increment_usage_counter(w, meter, value) ==
  increment_float(counter, USAGE_COUNTER_KEY(w, meter), value)

\* A reset that sets the meter's counter of every workspace.
reset_usage_counter_every_workspace(w, meter) ==
  [k \in CounterKeys |-> IF k[2] = meter THEN 0 ELSE counter[k]]

\* reset_usage_counter(workspace_id, meter): SETEX key 35d "0.0".
reset_usage_counter(w, meter) ==
  set_with_ttl(counter, USAGE_COUNTER_KEY(w, meter), 0)

\* The increment took effect in the store (and is noted in incs).
incremented(w, meter, value) ==
  /\ counter' = increment_usage_counter(w, meter, value)
  /\ expiry' = increment_float_expiry(expiry, USAGE_COUNTER_KEY(w, meter))
  /\ incs' = [incs EXCEPT ![USAGE_COUNTER_KEY(w, meter)] = Append(@, value)]
  /\ UNCHANGED <<cache, now, base>>

\* The reset took effect in the store (and is noted in base and incs).
was_reset(w, meter) ==
  /\ counter' = reset_usage_counter(w, meter)
  /\ expiry' = set_with_ttl_expiry(expiry, USAGE_COUNTER_KEY(w, meter), now, COUNTER_TTL)
  /\ base' = [base EXCEPT ![USAGE_COUNTER_KEY(w, meter)] = 0]
  /\ incs' = [incs EXCEPT ![USAGE_COUNTER_KEY(w, meter)] = <<>>]
  /\ UNCHANGED <<cache, now>>

\* The loop parses the body and calls handle_usage_event.
usage_handle(q) ==
  /\ q = "usage"
  /\ pc[q] = "handle"
  /\ LET d == Cur(q)
         b == body[dl[d].msg]
         ev == unwrap(b)
     IN IF ~parse_ok(b)
        THEN /\ handler_raised(q, d, dl[d], "parse")
             /\ UNCHANGED metered
        ELSE \E lookup_ok \in BOOLEAN, push_ok \in BOOLEAN :
          LET out == handle_usage_event(ev, lookup_ok, push_ok)
              r == [dl[d] EXCEPT !.calls = @ + 1]
          IN CASE out = "pushed" ->
                    /\ metered' = create_meter_event(ev.workspace_id,
                                     EVENT_TYPE_TO_METER(ev.event_type), ev.value)
                    /\ dl' = [dl EXCEPT ![d] = [r EXCEPT !.pushed = TRUE]]
                    /\ goto(q, "incr")
               [] out \in {"raise_value", "raise_lookup", "raise_push"} ->
                    /\ handler_raised(q, d, r, out)
                    /\ UNCHANGED metered
               [] OTHER ->
                    /\ handler_returned(q, d, [r EXCEPT !.err = out])
                    /\ UNCHANGED metered
  /\ UNCHANGED <<body, vis, expc, customers, subs, storeVars, apiVars>>

\* A handler that lets a failed counter update propagate.
usage_incr_fatal(q) ==
  /\ q = "usage"
  /\ pc[q] = "incr"
  /\ LET d == Cur(q)
         ev == unwrap(body[dl[d].msg])
     IN \E ok \in BOOLEAN :
          IF ok
            THEN /\ incremented(ev.workspace_id, ev.event_type, ev.value)
                 /\ handler_returned(q, d, [dl[d] EXCEPT !.incr = "ok"])
            ELSE /\ UNCHANGED storeVars
                 /\ handler_raised(q, d, [dl[d] EXCEPT !.incr = "failed"], "raise_incr")
  /\ UNCHANGED <<body, vis, expc, providerVars, apiVars>>

\* The Redis increment returns or raises; a failure is logged and swallowed,
\* and the handler returns.
usage_incr(q) ==
  /\ q = "usage"
  /\ pc[q] = "incr"
  /\ LET d == Cur(q)
         ev == unwrap(body[dl[d].msg])
     IN \E ok \in BOOLEAN :
          /\ IF ok
               THEN incremented(ev.workspace_id, ev.event_type, ev.value)
               ELSE UNCHANGED storeVars
          /\ handler_returned(q, d, [dl[d] EXCEPT !.incr = IF ok THEN "ok" ELSE "failed"])
  /\ UNCHANGED <<body, vis, expc, providerVars, apiVars>>

\* A loop that issues the delete again when it failed.
delete_message_retry(q) ==
  /\ pc[q] = "delete"
  /\ LET d == Cur(q) IN
       \E ok \in BOOLEAN :
         /\ vis' = IF ok THEN [vis EXCEPT ![dl[d].msg] = "deleted"] ELSE vis
         /\ dl' = [dl EXCEPT ![d].st = IF ok THEN "acked" ELSE @,
                             ![d].deletes = IF ok THEN @ ELSE @ + 1]
         /\ IF ok THEN next_message(q) ELSE UNCHANGED loopVars
  /\ UNCHANGED <<body, expc, providerVars, storeVars, apiVars>>

\* A loop whose delete sits outside the per-message try: a failed delete
\* reaches the handler of the while body's try, which ends the batch and
\* sleeps.
delete_message_backs_off(q) ==
  /\ pc[q] = "delete"
  /\ LET d == Cur(q) IN
       \E ok \in BOOLEAN :
         /\ vis' = IF ok THEN [vis EXCEPT ![dl[d].msg] = "deleted"] ELSE vis
         /\ dl' = [dl EXCEPT ![d].st = IF ok THEN "acked" ELSE "abandoned",
                             ![d].err = IF ok THEN @ ELSE "delete"]
         /\ IF ok THEN next_message(q)
            ELSE /\ pc' = [pc EXCEPT ![q] = "sleep"]
                 /\ batch' = [batch EXCEPT ![q] = <<>>]
                 /\ idx' = [idx EXCEPT ![q] = 0]
                 /\ ridx' = [ridx EXCEPT ![q] = 0]
                 /\ fails' = [fails EXCEPT ![q] = IF @ = 0 THEN 1 ELSE 2]
                 /\ delay' = [delay EXCEPT ![q] = poll_backoff(fails'[q])]
  /\ UNCHANGED <<body, expc, providerVars, storeVars, apiVars>>

\* client.delete_message returns (the message is gone) or raises (caught by
\* the per-message "except Exception").
delete_message(q) ==
  /\ pc[q] = "delete"
  /\ LET d == Cur(q) IN
       \E ok \in BOOLEAN :
         /\ vis' = IF ok THEN [vis EXCEPT ![dl[d].msg] = "deleted"] ELSE vis
         /\ dl' = [dl EXCEPT ![d].st = IF ok THEN "acked" ELSE "abandoned",
                             ![d].err = IF ok THEN @ ELSE "delete"]
  /\ next_message(q)
  /\ UNCHANGED <<body, expc, providerVars, storeVars, apiVars>>

\* --------------------------------------------- the Stripe event handler ----
\* _extract_workspace_id(data): subscription metadata, then customer metadata.
_extract_workspace_id(ev) ==
  IF ev.workspace_id # None THEN ev.workspace_id ELSE ev.cust_ws

\* _extract_workspace_id_from_invoice(data): invoice metadata; else the
\* subscription object's metadata when the subscription is an object; else
\* the first line item with a workspace id.
_extract_workspace_id_from_invoice(ev) ==
  IF ev.workspace_id # None THEN ev.workspace_id
  ELSE IF ev.sub_dict THEN ev.sub_ws
  ELSE ev.line_ws

\* A dispatch whose handler of an ending trial invalidates.
handle_stripe_event_trial_invalidates(ev) ==
  CASE ev.event_type \in {"customer.subscription.created",
                          "customer.subscription.updated",
                          "customer.subscription.deleted",
                          "customer.subscription.trial_will_end"} ->
         _extract_workspace_id(ev)
    [] ev.event_type \in {"invoice.paid", "invoice.payment_failed"} ->
         _extract_workspace_id_from_invoice(ev)
    [] OTHER -> None

\* A dispatch whose handler of a failed invoice payment only logs.
handle_stripe_event_logs_failed_payment(ev) ==
  CASE ev.event_type \in {"customer.subscription.created",
                          "customer.subscription.updated",
                          "customer.subscription.deleted"} ->
         _extract_workspace_id(ev)
    [] ev.event_type = "invoice.paid" -> _extract_workspace_id_from_invoice(ev)
    [] OTHER -> None

\* handle_stripe_event's dispatch on event_type up to the first await that
\* yields: the workspace whose cache entry the selected handler goes on to
\* invalidate, or None when it returns without touching the store.
handle_stripe_event(ev) ==
  CASE ev.event_type \in {"customer.subscription.created",
                          "customer.subscription.updated",
                          "customer.subscription.deleted"} ->
         _extract_workspace_id(ev)
    [] ev.event_type \in {"invoice.paid", "invoice.payment_failed"} ->
         _extract_workspace_id_from_invoice(ev)
    [] OTHER -> None

\* History: the deliveries of billing events whose handler has deleted the
\* cache entry of workspace w, and those among them whose handler returned.
invalidations(w) ==
  {d \in DOMAIN dl : /\ body[dl[d].msg].topic = "stripe" /\ dl[d].inval
                     /\ handle_stripe_event(unwrap(body[dl[d].msg])) = w}
invalidated(w) == {d \in invalidations(w) : dl[d].res = "returned"}

\* History: the deliveries of billing events whose handler has reset the
\* counter key k.
resets_of(k) ==
  {d \in DOMAIN dl : /\ body[dl[d].msg].topic = "stripe" /\ k[2] \in dl[d].resets
                     /\ handle_stripe_event(unwrap(body[dl[d].msg])) = k[1]}

\* A handler that takes every subscription update for a renewal.
is_period_renewal_always(ev) ==
  ev.event_type = "customer.subscription.updated"

\* _handle_subscription_updated: "current_period_start" in
\* data.get("previous_attributes", {}), data being the event's data.object.
is_period_renewal(ev) ==
  ev.event_type = "customer.subscription.updated" /\ ev.obj_prev

\* The loop parses the body and calls handle_stripe_event.
stripe_handle(q) ==
  /\ q = "stripe"
  /\ pc[q] = "handle"
  /\ LET d == Cur(q)
         b == body[dl[d].msg]
         ev == unwrap(b)
         r == [dl[d] EXCEPT !.calls = @ + 1]
     IN IF ~parse_ok(b) THEN handler_raised(q, d, dl[d], "parse")
        ELSE IF handle_stripe_event(ev) = None
          THEN handler_returned(q, d, [r EXCEPT !.err = "no_action"])
        ELSE /\ dl' = [dl EXCEPT ![d] = r]
             /\ goto(q, "inval")
  /\ UNCHANGED <<body, vis, expc, providerVars, storeVars, apiVars>>

\* invalidate_entitlements: the Redis DEL returns or raises.  After it
\* _handle_subscription_updated starts the reset loop on a renewal; every
\* other handler returns.
stripe_inval(q) ==
  /\ q = "stripe"
  /\ pc[q] = "inval"
  /\ LET d == Cur(q)
         ev == unwrap(body[dl[d].msg])
         r == [dl[d] EXCEPT !.inval = TRUE]
     IN \E ok \in BOOLEAN :
          IF ~ok THEN /\ handler_raised(q, d, dl[d], "raise_inval")
                      /\ UNCHANGED cache
          ELSE /\ cache' = delete_cached(cache, handle_stripe_event(ev))
               /\ IF is_period_renewal(ev)
                    THEN /\ dl' = [dl EXCEPT ![d] = r]
                         /\ pc' = [pc EXCEPT ![q] = "reset"]
                         /\ ridx' = [ridx EXCEPT ![q] = 1]
                         /\ UNCHANGED <<batch, idx, fails, delay>>
                    ELSE handler_returned(q, d, r)
  /\ UNCHANGED <<body, vis, expc, providerVars, counter, expiry, now, base, incs, apiVars>>

\* for meter in UsageEventType: await reset_usage_counter(workspace_id,
\* meter.value): the Redis SETEX of the current meter returns or raises.
stripe_reset(q) ==
  /\ q = "stripe"
  /\ pc[q] = "reset"
  /\ LET d == Cur(q)
         ev == unwrap(body[dl[d].msg])
         meter == UsageEventTypeSeq[ridx[q]]
         r == [dl[d] EXCEPT !.resets = @ \cup {meter}]
     IN \E ok \in BOOLEAN :
          IF ~ok THEN /\ handler_raised(q, d, dl[d], "raise_reset")
                      /\ UNCHANGED storeVars
          ELSE /\ was_reset(handle_stripe_event(ev), meter)
               /\ IF ridx[q] = Len(UsageEventTypeSeq)
                    THEN handler_returned(q, d, r)
                    ELSE /\ dl' = [dl EXCEPT ![d] = r]
                         /\ ridx' = [ridx EXCEPT ![q] = @ + 1]
                         /\ UNCHANGED <<pc, batch, idx, fails, delay>>
  /\ UNCHANGED <<body, vis, expc, providerVars, apiVars>>

\* -------------------------------------------- the payment event handler ----
\* _handle_razorpay_event: the invoice to mark paid and the workspace to
\* invalidate, from the notes of a captured payment; nothing for any other
\* type.
_handle_razorpay_event(ev) ==
  IF ev.event_type = "payment.captured"
    THEN <<ev.notes_invoice, ev.notes_ws>>
    ELSE <<None, None>>

\* _handle_manual_reconciliation: the same from the top-level keys.
_handle_manual_reconciliation(ev) == <<ev.invoice, ev.workspace_id>>

\* A dispatch whose gateway handler reconciles a failed payment as well.
handle_payment_event_reconciles_failed(ev) ==
  CASE ev.source = "razorpay" -> <<ev.notes_invoice, ev.notes_ws>>
    [] ev.source = "manual_reconciliation" -> _handle_manual_reconciliation(ev)
    [] OTHER -> <<None, None>>

\* handle_payment_event: dispatch on the source; the accounting system's
\* events and unknown sources are logged.
handle_payment_event(ev) ==
  CASE ev.source = "razorpay" -> _handle_razorpay_event(ev)
    [] ev.source = "manual_reconciliation" -> _handle_manual_reconciliation(ev)
    [] OTHER -> <<None, None>>

\* A handler that logs a failed mark-paid and goes on to the invalidation.
mark_paid_failed_swallowed(q, d, r, w) ==
  IF w = None THEN handler_returned(q, d, r)
  ELSE /\ dl' = [dl EXCEPT ![d] = r]
       /\ goto(q, "inval")

\* mark_invoice_paid_out_of_band raised: logged and re-raised.
mark_paid_failed(q, d, r, w) == handler_raised(q, d, r, "raise_paid")

\* The loop parses the body and calls handle_payment_event, which returns
\* when there is no invoice to reconcile and else marks the invoice paid;
\* the provider call does not suspend.
payment_handle(q) ==
  /\ q = "payment"
  /\ pc[q] = "handle"
  /\ LET d == Cur(q)
         b == body[dl[d].msg]
         h == handle_payment_event(unwrap(b))
         r == [dl[d] EXCEPT !.calls = @ + 1]
     IN IF ~parse_ok(b) THEN handler_raised(q, d, dl[d], "parse")
        ELSE IF h[1] = None
          THEN handler_returned(q, d, [r EXCEPT !.err = "no_action"])
        ELSE \E ok \in BOOLEAN :
               IF ~ok THEN mark_paid_failed(q, d, r, h[2])
               ELSE IF h[2] = None
                 THEN handler_returned(q, d, [r EXCEPT !.paid = TRUE])
               ELSE /\ dl' = [dl EXCEPT ![d] = [r EXCEPT !.paid = TRUE]]
                    /\ goto(q, "inval")
  /\ UNCHANGED <<body, vis, expc, providerVars, storeVars, apiVars>>

\* invalidate_entitlements after the invoice was marked paid: the Redis DEL
\* returns or raises.
payment_inval(q) ==
  /\ q = "payment"
  /\ pc[q] = "inval"
  /\ LET d == Cur(q)
         h == handle_payment_event(unwrap(body[dl[d].msg]))
     IN \E ok \in BOOLEAN :
          IF ~ok THEN /\ handler_raised(q, d, dl[d], "raise_inval")
                      /\ UNCHANGED cache
          ELSE /\ cache' = delete_cached(cache, h[2])
               /\ handler_returned(q, d, [dl[d] EXCEPT !.inval = TRUE])
  /\ UNCHANGED <<body, vis, expc, providerVars, counter, expiry, now, base, incs, apiVars>>

\* ------------------------------------------------------------- shutdown ----
\* The positions at which a consumer task is suspended in an await.
AwaitPoints == {"poll", "sleep", "incr", "inval", "reset", "delete"}

\* A loop whose "except" of the while body catches the cancellation like a
\* poll error and sleeps.
cancel_caught(q) ==
  /\ pc[q] \in AwaitPoints
  /\ pc' = [pc EXCEPT ![q] = "sleep"]
  /\ batch' = [batch EXCEPT ![q] = <<>>]
  /\ idx' = [idx EXCEPT ![q] = 0]
  /\ ridx' = [ridx EXCEPT ![q] = 0]
  /\ fails' = [fails EXCEPT ![q] = 1]
  /\ delay' = [delay EXCEPT ![q] = PollBackoffSeconds]
  /\ UNCHANGED <<queueVars, providerVars, storeVars, apiVars>>

\* task.cancel(): CancelledError is raised at the await the task is suspended
\* in and ends the task, and its locals with it.  A Redis command or a
\* delete already handed to its worker thread may or may not have taken
\* effect.
cancel(q) ==
  /\ pc[q] \in AwaitPoints
  /\ pc' = [pc EXCEPT ![q] = "cancelled"]
  /\ batch' = [batch EXCEPT ![q] = <<>>]
  /\ idx' = [idx EXCEPT ![q] = 0]
  /\ ridx' = [ridx EXCEPT ![q] = 0]
  /\ fails' = [fails EXCEPT ![q] = 0]
  /\ delay' = [delay EXCEPT ![q] = 0]
  /\ CASE pc[q] = "incr" ->
            LET d == Cur(q)
                ev == unwrap(body[dl[d].msg])
            IN \E applied \in BOOLEAN :
                 /\ IF applied
                      THEN incremented(ev.workspace_id, ev.event_type, ev.value)
                      ELSE UNCHANGED storeVars
                 /\ dl' = [dl EXCEPT ![d].res = "cancelled", ![d].st = "abandoned",
                                     ![d].err = "cancel",
                                     ![d].incr = IF applied THEN "ok" ELSE "none"]
                 /\ UNCHANGED vis
       [] pc[q] = "inval" ->
            LET d == Cur(q)
                ev == unwrap(body[dl[d].msg])
                w == IF q = "payment" THEN handle_payment_event(ev)[2]
                                      ELSE handle_stripe_event(ev)
            IN \E applied \in BOOLEAN :
                 /\ cache' = IF applied THEN delete_cached(cache, w) ELSE cache
                 /\ dl' = [dl EXCEPT ![d].res = "cancelled", ![d].st = "abandoned",
                                     ![d].err = "cancel", ![d].inval = applied]
                 /\ UNCHANGED <<vis, counter, expiry, now, base, incs>>
       [] pc[q] = "reset" ->
            LET d == Cur(q)
                ev == unwrap(body[dl[d].msg])
                meter == UsageEventTypeSeq[ridx[q]]
            IN \E applied \in BOOLEAN :
                 /\ IF applied
                      THEN was_reset(handle_stripe_event(ev), meter)
                      ELSE UNCHANGED storeVars
                 /\ dl' = [dl EXCEPT ![d].res = "cancelled", ![d].st = "abandoned",
                                     ![d].err = "cancel",
                                     ![d].resets = IF applied THEN @ \cup {meter} ELSE @]
                 /\ UNCHANGED vis
       [] pc[q] = "delete" ->
            LET d == Cur(q) IN
              \E deleted \in BOOLEAN :
                 /\ vis' = IF deleted THEN [vis EXCEPT ![dl[d].msg] = "deleted"] ELSE vis
                 /\ dl' = [dl EXCEPT ![d].st = IF deleted THEN "acked" ELSE "abandoned",
                                     ![d].err = "cancel"]
                 /\ UNCHANGED storeVars
       [] OTHER -> UNCHANGED <<vis, dl, storeVars>>
  /\ UNCHANGED <<body, expc, providerVars, apiVars>>

\* consumer_tasks of lifespan, in the order the tasks are created in.
consumer_tasks == <<"usage", "stripe", "payment">>

\* "for task in consumer_tasks" from position k on: task.cancel() on the
\* next started task, which is suspended in an await, and "await task"; or,
\* after the last one, the end of the shutdown.
shutdown_next(k) ==
  LET J == {j \in (k + 1)..Len(consumer_tasks) : pc[consumer_tasks[j]] # "off"}
  IN /\ IF J = {}
          THEN pc' = [pc EXCEPT ![Lifespan] = "complete"]
          ELSE /\ pc[consumer_tasks[Min(J)]] \in AwaitPoints
               /\ pc' = [pc EXCEPT ![Lifespan] = consumer_tasks[Min(J)]]
     /\ UNCHANGED <<batch, idx, ridx, fails, delay, queueVars, providerVars,
                    storeVars, apiVars>>

\* The lifespan resumes after its yield: the shutdown starts.
shutdown_begin ==
  /\ pc[Lifespan] = "serving"
  /\ shutdown_next(0)

\* CancelledError is thrown into the task the lifespan has cancelled.
task_cancelled(q) ==
  /\ pc[Lifespan] = q
  /\ cancel(q)

\* "await task" raises CancelledError, the task of topic q having ended;
\* "except asyncio.CancelledError: pass" and the for loop goes on.
task_awaited(q) ==
  /\ pc[Lifespan] = q
  /\ pc[q] = "cancelled"
  /\ \E k \in DOMAIN consumer_tasks :
       consumer_tasks[k] = q /\ shutdown_next(k)

\* The task of topic q runs: no cancellation of it is pending.
running(q) == pc[Lifespan] # q

\* ------------------------------------------------ the synchronous paths ----
\* An API request slot.  op: "record" (POST /usage, record_usage_event),
\* "check" (GET .../usage/{meter}/exceeded, check_usage_limit), "feature"
\* (GET .../feature/{feature}, check_feature_access), "get", "invalidate".  pc: "idle",
\* a Redis command the coroutine is suspended in ("incr", "cache_get",
\* "used", "cache_set", "live_get"), "done" (it returned) or "failed" (it
\* raised).  sub: the subscription fetched from the provider; snap: the
\* snapshot being built or obtained; result, total, status, err: what the
\* call returned or raised.  after is history: the number of billing events
\* invalidating w whose handler had returned when the call was made; for a
\* record() call, the number of resets of its counter made before its
\* increment.
Idle ==
  [op |-> "none", pc |-> "idle", w |-> None, meter |-> None, value |-> 0,
   refresh |-> FALSE, ttl |-> <<>>, after |-> 0, feature |-> None,
   sub |-> <<>>, snap |-> <<>>, result |-> FALSE, total |-> 0, status |-> 0,
   err |-> "none"]

Slots == 1..MaxConcurrent

\* Slots carry no meaning: a new request takes the lowest free slot.
free(i) == req[i].pc = "idle" /\ \A j \in Slots : j < i => req[j].pc # "idle"

\* The call in slot i raised err: its locals are gone.
failed(i, err, status) ==
  req' = [req EXCEPT ![i] = [Idle EXCEPT !.op = req[i].op, !.pc = "failed",
                                         !.err = err, !.status = status]]

\* A record() that pushes without a resolved customer.
record_usage_event_unresolved(ev, lookup_ok, push_ok) ==
  IF ~lookup_ok THEN "raise_lookup"
  ELSE IF EVENT_TYPE_TO_METER(ev.event_type) = None THEN "raise_unknown_type"
  ELSE IF ~push_ok THEN "raise_push"
  ELSE "pushed"

\* record_usage_event up to its first await that yields (the Redis
\* increment): how it ends, given whether the customer search and the meter
\* push succeed.
record_usage_event(ev, lookup_ok, push_ok) ==
  IF ~lookup_ok THEN "raise_lookup"
  ELSE IF ev.workspace_id \notin customers THEN "raise_no_customer"
  ELSE IF EVENT_TYPE_TO_METER(ev.event_type) = None THEN "raise_unknown_type"
  ELSE IF ~push_ok THEN "raise_push"
  ELSE "pushed"

\* POST /usage with a validated UsageEventRequest ev.  ValueError becomes
\* 400, any other exception 500.
record_call(i, inputs) ==
  /\ free(i)
  /\ \E ev \in inputs, lookup_ok \in BOOLEAN, push_ok \in BOOLEAN :
       LET out == record_usage_event(ev, lookup_ok, push_ok)
           r == [Idle EXCEPT !.op = "record", !.w = ev.workspace_id,
                             !.meter = ev.event_type, !.value = ev.value]
           meter_name == EVENT_TYPE_TO_METER(ev.event_type)
       IN IF out = "pushed"
            THEN /\ metered[<<ev.workspace_id, meter_name>>] < MaxUsage
                 /\ metered' = create_meter_event(ev.workspace_id, meter_name, ev.value)
                 /\ req' = [req EXCEPT ![i] = [r EXCEPT !.pc = "incr"]]
            ELSE /\ UNCHANGED metered
                 /\ req' = [req EXCEPT ![i] =
                      [Idle EXCEPT !.op = "record", !.pc = "failed", !.err = out,
                                   !.status = IF out \in {"raise_no_customer",
                                                          "raise_unknown_type"}
                                              THEN 400 ELSE 500]]
  /\ UNCHANGED <<queueVars, loopVars, customers, subs, storeVars>>

\* The Redis increment of record_usage_event returns the new total, which
\* the call returns as current_total, or raises.
record_incr(i) ==
  /\ req[i].op = "record"
  /\ req[i].pc = "incr"
  /\ \E ok \in BOOLEAN :
       IF ok
         THEN /\ incremented(req[i].w, req[i].meter, req[i].value)
              /\ req' = [req EXCEPT ![i].pc = "done", ![i].status = 200,
                           ![i].total = counter'[USAGE_COUNTER_KEY(req[i].w, req[i].meter)],
                           ![i].after = Cardinality(resets_of(
                                          USAGE_COUNTER_KEY(req[i].w, req[i].meter)))]
         ELSE /\ UNCHANGED storeVars
              /\ failed(i, "raise_incr", 500)
  /\ UNCHANGED <<queueVars, loopVars, providerVars>>

\* stripe_client.get_active_subscription: the customer's subscription when
\* its status is active or trialing.
get_active_subscription(w) ==
  IF subs[w] # <<>> /\ subs[w][1].status \in {"active", "trialing"}
    THEN subs[w] ELSE <<>>

\* PLAN_FEATURES: the features of each plan tier, used when the product
\* metadata names none.
PLAN_FEATURES ==
  [tier \in {"free", "starter", "growth", "enterprise"} |->
     CASE tier = "free" -> {"ai_chat"}
       [] tier = "starter" -> {"ai_chat", "whatsapp", "email_campaigns"}
       [] tier = "growth" -> {"ai_chat", "whatsapp", "email_campaigns",
                              "automations", "custom_actions"}
       [] tier = "enterprise" -> {"ai_chat", "whatsapp", "email_campaigns",
                                  "automations", "custom_actions",
                                  "dedicated_support", "sla", "custom_integrations"}]

\* The features of the subscription's product: the names of its metadata
\* "features" when that is not empty, else those of its tier.
product_features(s) ==
  IF "features" \in DOMAIN s /\ s.features # {} THEN s.features
  ELSE PLAN_FEATURES[s.tier]

\* A fetch that names no plan tier for a workspace without customer.
fetched_snapshot_no_tier(w) ==
  LET sub == get_active_subscription(w) IN
  [workspace_id |-> w,
   has_active_subscription |-> w \in customers /\ sub # <<>>,
   plan_tier |-> IF w \notin customers THEN None
                 ELSE IF sub # <<>> THEN sub[1].tier ELSE "free",
   subscription_status |-> IF w \notin customers THEN None
                           ELSE IF sub = <<>> THEN "canceled" ELSE sub[1].status,
   features |-> IF w \in customers /\ sub # <<>> THEN product_features(sub[1])
                ELSE PLAN_FEATURES["free"],
   usage |-> <<>>,
   is_quota_exceeded |-> FALSE,
   payment_overdue |-> w \in customers /\ sub # <<>> /\ sub[1].status = "past_due",
   cached |-> FALSE,
   cached_at |-> Absent,
   seen |-> Cardinality(invalidations(w))]

\* _fetch_entitlements_from_stripe before any counter is read: the snapshot
\* with an empty usage map.  seen is history, no field of the response: the
\* number of invalidations of w's entry by the billing consumer that came
\* before the provider was read.
fetched_snapshot(w) ==
  LET sub == get_active_subscription(w) IN
  [workspace_id |-> w,
   has_active_subscription |-> w \in customers /\ sub # <<>>,
   plan_tier |-> IF w \in customers /\ sub # <<>> THEN sub[1].tier ELSE "free",
   subscription_status |-> IF w \notin customers THEN None
                           ELSE IF sub = <<>> THEN "canceled" ELSE sub[1].status,
   features |-> IF w \in customers /\ sub # <<>> THEN product_features(sub[1])
                ELSE PLAN_FEATURES["free"],
   usage |-> <<>>,
   is_quota_exceeded |-> FALSE,
   payment_overdue |-> w \in customers /\ sub # <<>> /\ sub[1].status = "past_due",
   cached |-> FALSE,
   cached_at |-> Absent,
   seen |-> Cardinality(invalidations(w))]

\* entitlements.cached_at = datetime.now(timezone.utc)
stamped(snap, t) == [snap EXCEPT !.cached_at = t]

\* cache_ttl = ttl or settings.ENTITLEMENT_CACHE_TTL, ttl being <<>> (None)
\* or <<t>>: a ttl of 0 is falsy and gives the default.
cache_ttl(ttl) ==
  IF ttl = <<>> \/ ttl[1] = 0 THEN ENTITLEMENT_CACHE_TTL ELSE ttl[1]

\* The order of "for meter_name in [...]" in _fetch_entitlements_from_stripe.
SnapshotMeterSeq == <<"ai_credits", "whatsapp_messages", "email_sends">>

\* The meters with a limit in the product metadata whose counter the fetch
\* in slot i has still to read, as positions in SnapshotMeterSeq.
pending(r) ==
  {j \in DOMAIN SnapshotMeterSeq :
     /\ r.sub # <<>>
     /\ SnapshotMeterSeq[j] \in DOMAIN r.sub[1].limits
     /\ SnapshotMeterSeq[j] \notin DOMAIN r.snap[1].usage}

\* A check that answers from the usage stored in the snapshot.
usage_exceeded_from_snapshot(usage, current_usage) == usage.used >= usage.limit

\* check_usage_limit: return current_usage >= usage.limit
usage_exceeded(usage, current_usage) == current_usage >= usage.limit

\* A feature check that looks at the feature list alone.
check_feature_access_by_list(snap, feature) == feature \in snap.features

\* check_feature_access: return feature in entitlements.features and
\* entitlements.has_active_subscription
check_feature_access(snap, feature) ==
  feature \in snap.features /\ snap.has_active_subscription

\* get_entitlements returned snap to the caller in slot i, which runs up to
\* its next await.  The endpoint of get returns the snapshot.
\* check_feature_access returns its answer.
\* check_usage_limit: return False when the snapshot has no entry for the
\* meter, else read the live counter.
got_entitlements(i, snap) ==
  IF req[i].op = "feature"
    THEN req' = [req EXCEPT ![i].pc = "done", ![i].snap = <<snap>>,
                            ![i].result = check_feature_access(snap, req[i].feature),
                            ![i].status = 200]
  ELSE IF req[i].op = "get" \/ req[i].meter \notin DOMAIN snap.usage
    THEN req' = [req EXCEPT ![i].pc = "done", ![i].snap = <<snap>>,
                            ![i].result = FALSE, ![i].status = 200]
    ELSE req' = [req EXCEPT ![i].pc = "live_get", ![i].snap = <<snap>>]

\* The fetch in r has read a counter or has none to read: it reads the next
\* one, or is complete, and get_entitlements stamps the snapshot and goes
\* on to the cache write.
fetch_continues(r) ==
  IF pending(r) = {}
    THEN [r EXCEPT !.pc = "cache_set", !.sub = <<>>,
                   !.snap = <<stamped(r.snap[1], now)>>]
    ELSE [r EXCEPT !.pc = "used"]

\* _fetch_entitlements_from_stripe for the request r of slot i, up to its
\* first Redis command: the provider is asked for the customer, the
\* subscription and the product, and answers or fails.
fetch_from_stripe(i, r) ==
  \E provider_ok \in BOOLEAN :
    IF ~provider_ok
      THEN req' = [req EXCEPT ![i] = [Idle EXCEPT !.op = r.op, !.pc = "failed",
                                        !.err = "raise_provider", !.status = 500]]
      ELSE LET w == r.w
               sub == IF w \in customers THEN get_active_subscription(w) ELSE <<>>
           IN req' = [req EXCEPT ![i] =
                fetch_continues([r EXCEPT !.sub = sub, !.snap = <<fetched_snapshot(w)>>])]

\* A get that consults the cache whatever refresh says.
reads_cache_always(refresh) == TRUE

\* if not refresh: cached = await redis_client.get_cached_json(cache_key)
reads_cache(refresh) == ~refresh

\* GET /entitlements/{w}?refresh=..&ttl=..: get_entitlements(w, refresh,
\* ttl).  Without refresh its first await is the cache read; with refresh
\* it goes to the provider at once.
get_call(i, inputs) ==
  /\ free(i)
  /\ \E g \in inputs :
       LET r == [Idle EXCEPT !.op = "get", !.w = g[1], !.refresh = g[2], !.ttl = g[3],
                             !.after = Cardinality(invalidated(g[1]))]
       IN IF reads_cache(r.refresh)
            THEN req' = [req EXCEPT ![i] = [r EXCEPT !.pc = "cache_get"]]
            ELSE fetch_from_stripe(i, r)
  /\ UNCHANGED <<queueVars, loopVars, providerVars, storeVars>>

\* A hit that stamps the snapshot it returns.
cache_hit_restamped(cached) == [cached EXCEPT !.cached = TRUE, !.cached_at = now]

\* response = EntitlementResponse(**cached); response.cached = True
cache_hit(cached) == [cached EXCEPT !.cached = TRUE]

\* GET /entitlements/{w}/usage/{meter}/exceeded: check_usage_limit calls
\* get_entitlements(w), whose first await is the cache read.
check_call(i, inputs) ==
  /\ free(i)
  /\ \E c \in inputs :
       req' = [req EXCEPT ![i] = [Idle EXCEPT !.op = "check", !.pc = "cache_get",
                                              !.w = c[1], !.meter = c[2]]]
  /\ UNCHANGED <<queueVars, loopVars, providerVars, storeVars>>

\* GET /entitlements/{w}/feature/{feature}: check_feature_access calls
\* get_entitlements(w), whose first await is the cache read.
feature_call(i, inputs) ==
  /\ free(i)
  /\ \E c \in inputs :
       req' = [req EXCEPT ![i] = [Idle EXCEPT !.op = "feature", !.pc = "cache_get",
                                              !.w = c[1], !.feature = c[2]]]
  /\ UNCHANGED <<queueVars, loopVars, providerVars, storeVars>>

\* get_entitlements: the cache read returns or raises.  On a hit the cached
\* snapshot is returned with cached = True.  On a miss the provider is
\* asked for the customer, the subscription and the product; the fetch then
\* reads the counter of each meter with a limit, or goes on to the cache
\* write when there is none.
ent_cache_get(i) ==
  /\ req[i].pc = "cache_get"
  /\ LET w == req[i].w IN
     \E ok \in BOOLEAN :
       IF ~ok THEN failed(i, "raise_cache_get", 500)
       ELSE IF get_cached_json(cache, w) # <<>>
         THEN got_entitlements(i, cache_hit(get_cached_json(cache, w)[1]))
       ELSE fetch_from_stripe(i, req[i])
  /\ UNCHANGED <<queueVars, loopVars, providerVars, storeVars>>

\* _fetch_entitlements_from_stripe: the read of the next limited meter's
\* counter returns or raises; after the last one the snapshot is complete.
ent_used(i) ==
  /\ req[i].pc = "used"
  /\ LET w == req[i].w
         m == SnapshotMeterSeq[Min(pending(req[i]))]
         used == get_float(counter, USAGE_COUNTER_KEY(w, m))
         limit == req[i].sub[1].limits[m]
         usage == [k \in DOMAIN req[i].snap[1].usage \cup {m} |->
                     IF k = m THEN [used |-> used, limit |-> limit]
                     ELSE req[i].snap[1].usage[k]]
         snap == [req[i].snap[1] EXCEPT
                    !.usage = usage,
                    !.is_quota_exceeded =
                       \E k \in DOMAIN usage : usage[k].used >= usage[k].limit]
         r == [req[i] EXCEPT !.snap = <<snap>>]
     IN \E ok \in BOOLEAN :
          IF ~ok THEN failed(i, "raise_used", 500)
          ELSE req' = [req EXCEPT ![i] = fetch_continues(r)]
  /\ UNCHANGED <<queueVars, loopVars, providerVars, storeVars>>

\* get_entitlements: the cache write returns or raises (Redis rejects an
\* expiry that is not positive); then the snapshot is returned to the
\* caller.
ent_cache_set(i) ==
  /\ req[i].pc = "cache_set"
  /\ \E ok \in BOOLEAN :
       IF ~ok \/ cache_ttl(req[i].ttl) <= 0
         THEN /\ failed(i, "raise_cache_set", 500)
              /\ UNCHANGED cache
         ELSE /\ cache' = set_cached_json(cache, req[i].w, req[i].snap[1],
                                          cache_ttl(req[i].ttl))
              /\ got_entitlements(i, req[i].snap[1])
  /\ UNCHANGED <<queueVars, loopVars, providerVars, counter, expiry, now, base, incs>>

\* check_usage_limit: the read of the live counter returns or raises.
check_live_get(i) ==
  /\ req[i].op = "check"
  /\ req[i].pc = "live_get"
  /\ \E ok \in BOOLEAN :
       IF ~ok THEN failed(i, "raise_live_get", 500)
       ELSE req' = [req EXCEPT
              ![i].pc = "done", ![i].status = 200,
              ![i].result = usage_exceeded(
                 req[i].snap[1].usage[req[i].meter],
                 get_float(counter, USAGE_COUNTER_KEY(req[i].w, req[i].meter)))]
  /\ UNCHANGED <<queueVars, loopVars, providerVars, storeVars>>

\* POST /entitlements/{w}/invalidate: invalidate_entitlements(w), whose
\* only await is the Redis DEL.
invalidate_call(i, inputs) ==
  /\ free(i)
  /\ \E w \in inputs :
       req' = [req EXCEPT ![i] = [Idle EXCEPT !.op = "invalidate", !.pc = "cache_del",
                                              !.w = w]]
  /\ UNCHANGED <<queueVars, loopVars, providerVars, storeVars>>

\* invalidate_entitlements: the Redis DEL returns or raises; the endpoint
\* has no handler of its own for the exception.
invalidate_cache_del(i) ==
  /\ req[i].op = "invalidate"
  /\ req[i].pc = "cache_del"
  /\ \E ok \in BOOLEAN :
       IF ~ok THEN /\ failed(i, "raise_cache_del", 500)
                   /\ UNCHANGED cache
       ELSE /\ cache' = delete_cached(cache, req[i].w)
            /\ req' = [req EXCEPT ![i].pc = "done", ![i].status = 200]
  /\ UNCHANGED <<queueVars, loopVars, providerVars, counter, expiry, now, base, incs>>

\* dt seconds pass: Redis drops the keys whose expiry is reached.
time_passes(dt) ==
  /\ now < MaxTime
  /\ now' = now + dt
  /\ cache' = [w \in Workspaces |->
                IF cache[w] # <<>> /\ cache[w][2] <= now + dt THEN <<>> ELSE cache[w]]
  /\ counter' = [k \in CounterKeys |->
                  IF expired(expiry[k], now + dt) THEN Absent ELSE counter[k]]
  /\ expiry' = [k \in CounterKeys |->
                 IF expired(expiry[k], now + dt) THEN Absent ELSE expiry[k]]
  /\ base' = [k \in CounterKeys |->
               IF expired(expiry[k], now + dt) THEN 0 ELSE base[k]]
  /\ incs' = [k \in CounterKeys |->
               IF expired(expiry[k], now + dt) THEN <<>> ELSE incs[k]]
  /\ UNCHANGED <<queueVars, loopVars, providerVars, apiVars>>

\* The response of the call in slot i is sent; the slot is free again.
req_return(i) ==
  /\ req[i].pc \in {"done", "failed"}
  /\ req' = [req EXCEPT ![i] = Idle]
  /\ UNCHANGED <<queueVars, loopVars, providerVars, storeVars>>

\* ------------------------------------------------------- specifications ----
\* The queues hold MaxMsgs messages drawn from bodies, of which the first n
\* are still to be consumed and the others are consumed and deleted.
\* Message ids carry no meaning, so the draws are taken in non-decreasing
\* order.
InitQueue(bodies, n) ==
  /\ \E f \in [MsgIds -> DOMAIN bodies] :
       /\ \A m1, m2 \in MsgIds : m1 <= m2 => f[m1] <= f[m2]
       /\ body = [m \in MsgIds |-> bodies[f[m]]]
  /\ vis = [m \in MsgIds |-> IF m <= n THEN "visible" ELSE "deleted"]
  /\ expc = [m \in MsgIds |-> 0]
  /\ dl = <<>>

InitLoops(started) ==
  /\ pc = [q \in Topics \cup {Lifespan} |->
            IF q = Lifespan THEN "serving"
            ELSE IF q \in started THEN "poll" ELSE "off"]
  /\ batch = [q \in Topics |-> <<>>]
  /\ idx = [q \in Topics |-> 0]
  /\ ridx = [q \in Topics |-> 0]
  /\ fails = [q \in Topics |-> 0]
  /\ delay = [q \in Topics |-> 0]

\* The store at the start: the counters c0, those that exist as the reset of
\* a period rollover armed them, no increment noted, the cache entries.
InitStore(c0, entries) ==
  /\ counter = c0
  /\ expiry = [k \in CounterKeys |-> IF c0[k] = Absent THEN Absent ELSE COUNTER_TTL]
  /\ base = [k \in CounterKeys |-> get_float(c0, k)]
  /\ incs = [k \in CounterKeys |-> <<>>]
  /\ cache = entries
  /\ now = 0

NoCounters == [k \in CounterKeys |-> Absent]
NoEntries == [w \in Workspaces |-> <<>>]
NoSubscriptions == [w \in Workspaces |-> <<>>]

InitApi == req = [i \in Slots |-> Idle]

\* Only SQS_USAGE_EVENTS_QUEUE_URL is configured: the usage consumer alone.
InitUsage ==
  /\ InitQueue(UsageBodies, MaxMsgs)
  /\ InitLoops({"usage"})
  /\ customers = {"ws_2"}
  /\ metered = [k \in MeteredKeys |-> 0]
  /\ subs = NoSubscriptions
  /\ InitStore(NoCounters, NoEntries)
  /\ InitApi

NextUsage ==
  \/ \E m \in MsgIds : visibility_timeout(m)
  \/ \E q \in Topics :
       \/ receive_message(q)
       \/ sleep_done(q)
       \/ take_message(q)
       \/ usage_handle(q)
       \/ usage_incr(q)
       \/ delete_message(q)
       \/ cancel(q)

SpecUsage == InitUsage /\ [][NextUsage]_vars

\* The usage consumer alone, its queue populated from MalformedBodies.
InitMalformed ==
  /\ InitQueue(MalformedBodies, MaxMsgs)
  /\ InitLoops({"usage"})
  /\ customers = {"ws_2"}
  /\ metered = [k \in MeteredKeys |-> 0]
  /\ subs = NoSubscriptions
  /\ InitStore(NoCounters, NoEntries)
  /\ InitApi

SpecMalformed == InitMalformed /\ [][NextUsage]_vars

\* The API alone.  ws_1 has no provider customer; ws_2 has one, with no
\* subscription or one of FeaturePlans: an active one whose features come
\* from its tier, a trialing one whose product metadata names them, and a
\* past_due one.
FeaturePlans ==
  << [status |-> "active", tier |-> "growth", limits |-> <<>>],
     [status |-> "trialing", tier |-> "starter", limits |-> <<>>, features |-> {"sla"}],
     [status |-> "past_due", tier |-> "growth", limits |-> <<>>] >>
FeatureChecks == {<<"ws_1", "ai_chat">>, <<"ws_2", "ai_chat">>, <<"ws_2", "sla">>}
InitFeature ==
  /\ InitQueue(UsageBodies, 0)
  /\ InitLoops({})
  /\ customers = {"ws_2"}
  /\ metered = [k \in MeteredKeys |-> 0]
  /\ \E s \in {<<>>} \cup {<<FeaturePlans[j]>> : j \in DOMAIN FeaturePlans} :
       subs = [w \in Workspaces |-> IF w = "ws_2" THEN s ELSE <<>>]
  /\ InitStore(NoCounters, NoEntries)
  /\ InitApi
NextFeature ==
  \E i \in Slots :
    \/ feature_call(i, FeatureChecks)
    \/ ent_cache_get(i)
    \/ ent_cache_set(i)
    \/ req_return(i)
SpecFeature == InitFeature /\ [][NextFeature]_vars

\* The usage consumer alone, its queue populated from UnparseableBodies.
InitUnparseable ==
  /\ InitQueue(UnparseableBodies, MaxMsgs)
  /\ InitLoops({"usage"})
  /\ customers = {"ws_2"}
  /\ metered = [k \in MeteredKeys |-> 0]
  /\ subs = NoSubscriptions
  /\ InitStore(NoCounters, NoEntries)
  /\ InitApi

SpecUnparseable == InitUnparseable /\ [][NextUsage]_vars

\* The usage consumer alone, its queue populated from NotFoundBodies.
InitNotFound ==
  /\ InitQueue(NotFoundBodies, MaxMsgs)
  /\ InitLoops({"usage"})
  /\ customers = {"ws_2"}
  /\ metered = [k \in MeteredKeys |-> 0]
  /\ subs = NoSubscriptions
  /\ InitStore(NoCounters, NoEntries)
  /\ InitApi

SpecNotFound == InitNotFound /\ [][NextUsage]_vars

\* The usage consumer next to synchronous record() calls, all for the same
\* counter, which exists or not at the start.
CounterKey == USAGE_COUNTER_KEY("ws_2", "ai_credits")
CounterBodies == << UsageMsg("ws_2", "ai_credits", "num", 1) >>
CounterInputs ==
  {[workspace_id |-> "ws_2", event_type |-> "ai_credits", value |-> 1]}

InitCounter ==
  /\ InitQueue(CounterBodies, 1)
  /\ InitLoops({"usage"})
  /\ customers = {"ws_2"}
  /\ metered = [k \in MeteredKeys |-> 0]
  /\ subs = NoSubscriptions
  /\ \E c \in {Absent, 1} :
       InitStore([NoCounters EXCEPT ![CounterKey] = c], NoEntries)
  /\ InitApi

NextCounter ==
  \/ \E q \in Topics :
       \/ receive_message(q)
       \/ sleep_done(q)
       \/ take_message(q)
       \/ usage_handle(q)
       \/ usage_incr(q)
       \/ delete_message(q)
  \/ \E i \in Slots :
       \/ record_call(i, CounterInputs)
       \/ record_incr(i)

SpecCounter == InitCounter /\ [][NextCounter]_vars

\* record() calls alone, no request slot used twice: the requests a
\* UsageEventRequest admits, for a workspace with and one without provider
\* customer, an event type with and one without provider meter, and a
\* negative, a zero and a positive value.  The values are multiples of
\* three, so that no counter that exists holds the number that stands for
\* Absent.
RecordValues == {-3, 0, 3}
RecordInputs ==
  [workspace_id : Workspaces, event_type : {"ai_credits", "sms_send"},
   value : RecordValues]

InitRecord ==
  /\ InitQueue(CounterBodies, 0)
  /\ InitLoops({})
  /\ customers = {"ws_2"}
  /\ metered = [k \in MeteredKeys |-> 0]
  /\ subs = NoSubscriptions
  /\ \E c \in {Absent, 1} :
       InitStore([NoCounters EXCEPT ![CounterKey] = c], NoEntries)
  /\ InitApi

NextRecord ==
  \E i \in Slots :
    \/ record_call(i, RecordInputs)
    \/ record_incr(i)

SpecRecord == InitRecord /\ [][NextRecord]_vars

\* The synchronous paths alone: record() and check_usage_limit() calls for
\* a workspace whose plan limits ai_credits.
QuotaPlans ==
  { [status |-> "active", tier |-> "growth", limits |-> ("ai_credits" :> 1)] }
QuotaRecords ==
  {[workspace_id |-> "ws_2", event_type |-> "ai_credits", value |-> 1]}
QuotaChecks == {"ws_2"} \X {"ai_credits", "sms_send"}

InitQuota ==
  /\ InitQueue(CounterBodies, 0)
  /\ InitLoops({})
  /\ customers = {"ws_2"}
  /\ metered = [k \in MeteredKeys |-> 0]
  /\ \E plan \in QuotaPlans : subs = [NoSubscriptions EXCEPT !["ws_2"] = <<plan>>]
  /\ InitStore(NoCounters, NoEntries)
  /\ InitApi

NextQuota ==
  \E i \in Slots :
       \/ record_call(i, QuotaRecords)
       \/ record_incr(i)
       \/ check_call(i, QuotaChecks)
       \/ ent_cache_get(i)
       \/ ent_used(i)
       \/ ent_cache_set(i)
       \/ check_live_get(i)
       \/ req_return(i)

SpecQuota == InitQuota /\ [][NextQuota]_vars

\* The same paths for a workspace whose plan limits the meter of the
\* WhatsApp messages: record() calls for the event type, and checks asked
\* with the event type's name and with the meter's name.
MeterKeyPlans ==
  { [status |-> "active", tier |-> "growth", limits |-> ("whatsapp_messages" :> 1)] }
MeterKeyRecords ==
  {[workspace_id |-> "ws_2", event_type |-> "whatsapp_message", value |-> 1]}
MeterKeyChecks == {"ws_2"} \X {"whatsapp_message", "whatsapp_messages"}

InitMeterKeys ==
  /\ InitQueue(CounterBodies, 0)
  /\ InitLoops({})
  /\ customers = {"ws_2"}
  /\ metered = [k \in MeteredKeys |-> 0]
  /\ \E plan \in MeterKeyPlans : subs = [NoSubscriptions EXCEPT !["ws_2"] = <<plan>>]
  /\ InitStore(NoCounters, NoEntries)
  /\ InitApi

NextMeterKeys ==
  \E i \in Slots :
       \/ record_call(i, MeterKeyRecords)
       \/ record_incr(i)
       \/ check_call(i, MeterKeyChecks)
       \/ ent_cache_get(i)
       \/ ent_used(i)
       \/ ent_cache_set(i)
       \/ check_live_get(i)
       \/ req_return(i)

SpecMeterKeys == InitMeterKeys /\ [][NextMeterKeys]_vars

\* The entitlement cache alone: get() and invalidate() calls, no request
\* slot used twice, while time passes.  ws_2 has a customer with an active
\* plan without usage limits, ws_1 has no customer.  At the start there is
\* no entry, or the entry of ws_2 that a get() at time 0 wrote.
CachePlan == [status |-> "active", tier |-> "growth", limits |-> <<>>]
\* (workspace, refresh, ttl), ttl being None, 0 or a number of seconds.
GetInputs ==
  { <<"ws_2", FALSE, <<>>>>, <<"ws_2", FALSE, <<1>>>>, <<"ws_2", TRUE, <<>>>>,
    <<"ws_2", TRUE, <<0>>>>, <<"ws_1", FALSE, <<>>>> }
InvalidateInputs == {"ws_2"}
Durations == {1, ENTITLEMENT_CACHE_TTL}

InitCache ==
  /\ InitQueue(CounterBodies, 0)
  /\ InitLoops({})
  /\ customers = {"ws_2"}
  /\ metered = [k \in MeteredKeys |-> 0]
  /\ subs = [NoSubscriptions EXCEPT !["ws_2"] = <<CachePlan>>]
  /\ \E e \in {<<>>, <<stamped(fetched_snapshot("ws_2"), 0), ENTITLEMENT_CACHE_TTL>>} :
       InitStore(NoCounters, [NoEntries EXCEPT !["ws_2"] = e])
  /\ InitApi

NextCache ==
  \/ \E i \in Slots :
       \/ get_call(i, GetInputs)
       \/ ent_cache_get(i)
       \/ ent_cache_set(i)
       \/ invalidate_call(i, InvalidateInputs)
       \/ invalidate_cache_del(i)
  \/ \E dt \in Durations : time_passes(dt)

SpecCache == InitCache /\ [][NextCache]_vars

\* Only SQS_STRIPE_EVENTS_QUEUE_URL is configured: the billing consumer
\* alone, over a store in which every workspace has a cache entry and
\* every counter holds usage, or in which there is none.
InitBilling ==
  /\ InitQueue(StripeBodies, MaxMsgs)
  /\ InitLoops({"stripe"})
  /\ customers = {"ws_2"}
  /\ metered = [k \in MeteredKeys |-> 0]
  /\ subs = NoSubscriptions
  /\ \E c \in {Absent, 2} :
       InitStore([k \in CounterKeys |-> c],
                 [w \in Workspaces |->
                    IF c = Absent THEN <<>>
                    ELSE <<stamped(fetched_snapshot(w), 0), ENTITLEMENT_CACHE_TTL>>])
  /\ InitApi

NextBilling ==
  \/ \E m \in MsgIds : visibility_timeout(m)
  \/ \E q \in Topics :
       \/ receive_message(q)
       \/ sleep_done(q)
       \/ take_message(q)
       \/ stripe_handle(q)
       \/ stripe_inval(q)
       \/ stripe_reset(q)
       \/ delete_message(q)
       \/ cancel(q)

SpecBilling == InitBilling /\ [][NextBilling]_vars

\* The billing consumer, its queue holding one renewal event in MaxMsgs
\* copies, next to record() calls for the renewed workspace; the counters
\* hold the usage of the period that ends.
RolloverBodies == << StripeMsg("customer.subscription.updated", "ws_2", None, TRUE, FALSE) >>

InitRollover ==
  /\ InitQueue(RolloverBodies, MaxMsgs)
  /\ InitLoops({"stripe"})
  /\ customers = {"ws_2"}
  /\ metered = [k \in MeteredKeys |-> 0]
  /\ subs = NoSubscriptions
  /\ InitStore([k \in CounterKeys |-> 2], NoEntries)
  /\ InitApi

NextRollover ==
  \/ \E m \in MsgIds : visibility_timeout(m)
  \/ \E q \in Topics :
       \/ receive_message(q)
       \/ sleep_done(q)
       \/ take_message(q)
       \/ stripe_handle(q)
       \/ stripe_inval(q)
       \/ stripe_reset(q)
       \/ delete_message(q)
  \/ \E i \in Slots :
       \/ record_call(i, QuotaRecords)
       \/ record_incr(i)

SpecRollover == InitRollover /\ [][NextRollover]_vars

\* The billing consumer alone, each message delivered once and no shutdown,
\* over a store in which every workspace has a cache entry and every
\* counter holds usage.
InitStripe(bodies) ==
  /\ InitQueue(bodies, MaxMsgs)
  /\ InitLoops({"stripe"})
  /\ customers = {"ws_2"}
  /\ metered = [k \in MeteredKeys |-> 0]
  /\ subs = NoSubscriptions
  /\ InitStore([k \in CounterKeys |-> 2],
               [w \in Workspaces |->
                  <<stamped(fetched_snapshot(w), 0), ENTITLEMENT_CACHE_TTL>>])
  /\ InitApi

NextStripe ==
  \E q \in Topics :
    \/ receive_message(q)
    \/ sleep_done(q)
    \/ take_message(q)
    \/ stripe_handle(q)
    \/ stripe_inval(q)
    \/ delete_message(q)

InitInvalidating == InitStripe(InvalidatingBodies)
SpecInvalidating == InitInvalidating /\ [][NextStripe]_vars

InitNonActionable == InitStripe(NonActionableBodies)
SpecNonActionable == InitNonActionable /\ [][NextStripe]_vars

InitInvoice == InitStripe(InvoiceBodies)
SpecInvoice == InitInvoice /\ [][NextStripe]_vars

\* The payment consumer alone, every workspace with a cached snapshot.
InitPayment ==
  /\ InitQueue(PaymentBodies, MaxMsgs)
  /\ InitLoops({"payment"})
  /\ customers = {"ws_2"}
  /\ metered = [k \in MeteredKeys |-> 0]
  /\ subs = NoSubscriptions
  /\ InitStore([k \in CounterKeys |-> 2],
               [w \in Workspaces |->
                  <<stamped(fetched_snapshot(w), 0), ENTITLEMENT_CACHE_TTL>>])
  /\ InitApi

NextPayment ==
  \E q \in Topics :
    \/ receive_message(q)
    \/ sleep_done(q)
    \/ take_message(q)
    \/ payment_handle(q)
    \/ payment_inval(q)
    \/ delete_message(q)

SpecPayment == InitPayment /\ [][NextPayment]_vars

\* The billing queue URL and one of the two others are configured: two
\* consumer tasks, and the lifespan that shuts them down.  The messages are
\* those of the configured queues.
InitShutdown ==
  /\ InitQueue(ShutdownBodies, MaxMsgs)
  /\ \E q \in {"usage", "payment"} : InitLoops(Topics \ {q})
  /\ \A m \in MsgIds : pc[body[m].topic] # "off"
  /\ customers = {"ws_2"}
  /\ metered = [k \in MeteredKeys |-> 0]
  /\ subs = NoSubscriptions
  /\ InitStore([k \in CounterKeys |-> 2],
               [w \in Workspaces |->
                  <<stamped(fetched_snapshot(w), 0), ENTITLEMENT_CACHE_TTL>>])
  /\ InitApi

NextShutdown ==
  \/ shutdown_begin
  \/ \E q \in Topics :
       \/ /\ running(q)
          /\ \/ receive_message(q)
             \/ sleep_done(q)
             \/ take_message(q)
             \/ usage_handle(q)
             \/ usage_incr(q)
             \/ stripe_handle(q)
             \/ stripe_inval(q)
             \/ stripe_reset(q)
             \/ payment_handle(q)
             \/ payment_inval(q)
             \/ delete_message(q)
       \/ task_cancelled(q)
       \/ task_awaited(q)

SpecShutdown == InitShutdown /\ [][NextShutdown]_vars

\* A consumer and the API side by side, acting for different workspaces: a
\* queue holds a usage event of ws_1, a renewal of ws_2 or a captured
\* payment of ws_1, the consumer of that queue runs, and
\* the API is asked to record usage of ws_2, to rebuild the snapshot of ws_1
\* and to invalidate that of ws_2.  Every workspace has a cache entry and
\* counters.
IsolationBodies ==
  << UsageMsg("ws_1", "ai_credits", "num", 1),
     StripeMsg("customer.subscription.updated", "ws_2", None, TRUE, FALSE),
     PaymentMsg("razorpay", "payment.captured", None, None, "in_1", "ws_1") >>
IsolationRecords ==
  {[workspace_id |-> "ws_2", event_type |-> "email_send", value |-> 1]}
IsolationGets == { <<"ws_1", TRUE, <<>>>> }

InitIsolation ==
  /\ \E j \in DOMAIN IsolationBodies : InitQueue(<<IsolationBodies[j]>>, 1)
  /\ InitLoops({body[m].topic : m \in MsgIds})
  /\ customers = Workspaces
  /\ metered = [k \in MeteredKeys |-> 0]
  /\ subs = NoSubscriptions
  /\ InitStore([k \in CounterKeys |-> 2],
               [w \in Workspaces |->
                  <<stamped(fetched_snapshot(w), 0), ENTITLEMENT_CACHE_TTL>>])
  /\ InitApi

NextIsolation ==
  \/ \E q \in Topics :
       \/ receive_message(q)
       \/ sleep_done(q)
       \/ take_message(q)
       \/ usage_handle(q)
       \/ usage_incr(q)
       \/ stripe_handle(q)
       \/ stripe_inval(q)
       \/ stripe_reset(q)
       \/ payment_handle(q)
       \/ payment_inval(q)
       \/ delete_message(q)
  \/ \E i \in Slots :
       \/ record_call(i, IsolationRecords)
       \/ record_incr(i)
       \/ get_call(i, IsolationGets)
       \/ ent_cache_set(i)
       \/ invalidate_call(i, InvalidateInputs)
       \/ invalidate_cache_del(i)

SpecIsolation == InitIsolation /\ [][NextIsolation]_vars

\* Convergence.  One kind of well-formed message, in one or more copies,
\* and the consumer of its queue, which runs on (no shutdown); every
\* workspace has a provider customer and a cache entry.
InitConverge ==
  /\ \E j \in DOMAIN IsolationBodies, n \in 1..MaxMsgs :
       InitQueue(<<IsolationBodies[j]>>, n)
  /\ InitLoops({body[m].topic : m \in MsgIds})
  /\ customers = Workspaces
  /\ metered = [k \in MeteredKeys |-> 0]
  /\ subs = NoSubscriptions
  /\ InitStore([k \in CounterKeys |-> 2],
               [w \in Workspaces |-> <<stamped(fetched_snapshot(w), 0), ENTITLEMENT_CACHE_TTL>>])
  /\ InitApi

\* The calls of the provider, the store and the queue's delete stop failing
\* in time: a delivery fails only while every message still in the queue
\* can be delivered once more within MaxDeliveries.
calls_settled ==
  Len(dl) + Cardinality({m \in MsgIds : vis[m] # "deleted"}) > MaxDeliveries
settles ==
  calls_settled =>
    \A d \in DOMAIN dl : dl'[d].st = "abandoned" => dl[d].st = "abandoned"

\* The steps of the loop of topic q between two polls.
loop_step(q) ==
  \/ sleep_done(q)
  \/ take_message(q)
  \/ usage_handle(q) /\ settles
  \/ usage_incr(q)
  \/ stripe_handle(q) /\ settles
  \/ stripe_inval(q) /\ settles
  \/ stripe_reset(q) /\ settles
  \/ payment_handle(q) /\ settles
  \/ payment_inval(q) /\ settles
  \/ delete_message(q) /\ settles

NextConverge ==
  \/ \E m \in MsgIds : visibility_timeout(m)
  \/ \E q \in Topics : receive_message(q)
  \/ \E q \in Topics : loop_step(q)

SpecConverge == InitConverge /\ [][NextConverge]_vars

\* Scheduling: a loop that can take a step takes one (the event loop runs
\* every ready task); an in-flight message no loop holds becomes visible
\* again; and a poll with a visible message does not fail for ever.
Fairness ==
  /\ \A q \in Topics : WF_vars(loop_step(q))
  /\ \A q \in Topics : SF_vars(receive_message(q) /\ batch'[q] # <<>>)
  /\ \A m \in MsgIds : WF_vars(visibility_timeout(m))

SpecConvergeFair == SpecConverge /\ Fairness

\* The billing consumer, with one failed invoice payment of ws_2 to
\* consume, next to get("ws_2") calls, no request slot used twice.  ws_2
\* has a customer with an active plan; its entry exists at the start or not.
FreshBodies == << InvoiceMsg("invoice.payment_failed", "ws_2", FALSE, None, None) >>
FreshGets == { <<"ws_2", FALSE, <<>>>>, <<"ws_2", TRUE, <<>>>> }

InitFresh ==
  /\ InitQueue(FreshBodies, 1)
  /\ InitLoops({"stripe"})
  /\ customers = {"ws_2"}
  /\ metered = [k \in MeteredKeys |-> 0]
  /\ subs = [NoSubscriptions EXCEPT !["ws_2"] = <<CachePlan>>]
  /\ \E e \in {<<>>, <<stamped(fetched_snapshot("ws_2"), 0), ENTITLEMENT_CACHE_TTL>>} :
       InitStore(NoCounters, [NoEntries EXCEPT !["ws_2"] = e])
  /\ InitApi

NextFresh ==
  \/ NextStripe
  \/ \E i \in Slots :
       \/ get_call(i, FreshGets)
       \/ ent_cache_get(i)
       \/ ent_cache_set(i)

SpecFresh == InitFresh /\ [][NextFresh]_vars

\* The same, ws_2's subscription at the provider being past due; its entry
\* at the start, if any, is the snapshot built while the subscription was
\* active.
PastDuePlan == [CachePlan EXCEPT !.status = "past_due"]
ActiveSnapshot ==
  [fetched_snapshot("ws_2") EXCEPT
     !.has_active_subscription = TRUE, !.plan_tier = CachePlan.tier,
     !.subscription_status = "active"]

InitPastDue ==
  /\ InitQueue(FreshBodies, 1)
  /\ InitLoops({"stripe"})
  /\ customers = {"ws_2"}
  /\ metered = [k \in MeteredKeys |-> 0]
  /\ subs = [NoSubscriptions EXCEPT !["ws_2"] = <<PastDuePlan>>]
  /\ \E e \in {<<>>, <<stamped(ActiveSnapshot, 0), ENTITLEMENT_CACHE_TTL>>} :
       InitStore(NoCounters, [NoEntries EXCEPT !["ws_2"] = e])
  /\ InitApi

SpecPastDue == InitPastDue /\ [][NextFresh]_vars

\* ------------------------------------------------------------- claims ----
Deliveries == DOMAIN dl
DeliveriesOf(m) == {d \in Deliveries : dl[d].msg = m}

\* C1.  Ack on success: a delivery whose handler returned has had exactly one
\* delete issued for its receipt handle; a delete is issued only for a
\* delivery whose handler has returned; an acked delivery's message is
\* deleted; and once a message is deleted it is never received or handled
\* again.
C1_State ==
  \A d \in Deliveries :
    /\ dl[d].res = "returned" => dl[d].deletes = 1
    /\ dl[d].deletes > 0 => dl[d].res = "returned" /\ dl[d].calls = 1
    /\ dl[d].st = "acked" => dl[d].res = "returned" /\ vis[dl[d].msg] = "deleted"
C1_Step ==
  /\ \A m \in MsgIds : vis[m] = "deleted" => vis'[m] = "deleted"
  /\ \A d \in DOMAIN dl' :
       vis[dl'[d].msg] = "deleted" =>
         d \in Deliveries /\ dl'[d].calls = dl[d].calls /\ dl'[d].res = dl[d].res
C1_AckOnSuccess == []C1_State /\ [][C1_Step]_vars
C1_Witness ==
  \E d \in Deliveries :
    dl[d].st = "acked" /\ dl[d].pushed /\ pc["usage"] \in {"poll", "take"}

\* C2.  Abandon on failure: a delivery whose handler (or whose parsing)
\* raised has no delete issued and is abandoned; the handler is called at most
\* once per delivery and a batch holds a message at most once; the step in
\* which it raises leaves the message in the queue; a message is delivered
\* again only after its visibility timeout has elapsed since the previous
\* delivery.
C2_State ==
  /\ \A d \in Deliveries :
       /\ dl[d].calls <= 1
       /\ dl[d].res = "raised" => dl[d].deletes = 0 /\ dl[d].st = "abandoned"
  /\ \A q \in Topics : \A i, j \in DOMAIN batch[q] :
       i # j => dl[batch[q][i]].msg # dl[batch[q][j]].msg
  /\ \A m \in MsgIds : Cardinality(DeliveriesOf(m)) <= expc[m] + 1
  /\ \A m \in MsgIds :
       vis[m] = "deleted" => \E d \in DeliveriesOf(m) : dl[d].res = "returned"
C2_Step ==
  \A d \in Deliveries :
    dl[d].res # "raised" /\ dl'[d].res = "raised" =>
      /\ vis'[dl[d].msg] = "inflight"
      /\ pc'[body[dl[d].msg].topic] \in {"take", "poll"}
C2_AbandonOnFailure == []C2_State /\ [][C2_Step]_vars
C2_Witness ==
  \E d1, d2 \in Deliveries :
    /\ d1 < d2 /\ dl[d1].msg = dl[d2].msg
    /\ dl[d1].res = "raised" /\ dl[d1].err = "raise_push"
    /\ dl[d2].calls = 1

\* C3.  Per-delivery state machine: a delivery starts as received and moves
\* only received -> processing -> acked or abandoned; at most one delete is
\* issued per delivery and at most one delivery of a message is acked; once
\* the task is cancelled no delivery is left in processing.
C3_Allowed(a, b) ==
  \/ a = b
  \/ a = "received" /\ b = "processing"
  \/ a = "processing" /\ b \in {"acked", "abandoned"}
C3_Step ==
  \A d \in DOMAIN dl' :
    IF d \in Deliveries
      THEN C3_Allowed(dl[d].st, dl'[d].st) /\ dl'[d].msg = dl[d].msg
      ELSE dl'[d].st = "received"
C3_State ==
  /\ \A d \in Deliveries :
       /\ dl[d].deletes <= 1
       /\ dl[d].st \in {"received", "processing", "acked", "abandoned"}
       /\ pc[body[dl[d].msg].topic] = "cancelled" => dl[d].st # "processing"
       /\ dl[d].st = "acked" => dl[d].deletes = 1
  /\ \A m \in MsgIds :
       Cardinality({d \in DeliveriesOf(m) : dl[d].st = "acked"}) <= 1
C3_DeliveryStateMachine == []C3_State /\ [][C3_Step]_vars
C3_Witness ==
  /\ pc["usage"] = "cancelled"
  /\ \E d \in Deliveries : dl[d].err = "cancel" /\ dl[d].st = "acked"
  /\ \E d \in Deliveries : dl[d].st = "abandoned"

\* C4.  Poll failure backoff: a failed receive handles and deletes nothing and
\* puts the loop to sleep for 5 seconds, whatever the number of consecutive
\* failures; from the sleep the loop goes back to polling (or is cancelled),
\* so a poll failure never ends it.
C4_State ==
  \A q \in Topics :
    /\ pc[q] = "sleep" => delay[q] = 5 /\ fails[q] > 0 /\ batch[q] = <<>>
    /\ fails[q] > 0 => pc[q] \in {"sleep", "poll"}
C4_Step ==
  \A q \in Topics :
    /\ pc[q] = "poll" /\ fails'[q] > fails[q] =>
         pc'[q] = "sleep" /\ dl' = dl /\ vis' = vis
    /\ pc[q] = "sleep" => pc'[q] \in {"sleep", "poll", "cancelled"}
C4_PollFailureBackoff == []C4_State /\ [][C4_Step]_vars
C4_Witness == pc["usage"] = "sleep" /\ fails["usage"] = 2 /\ delay["usage"] = 5

\* The event of a usage delivery, and what makes a usage message one that
\* can be metered: it parses, is well formed, its workspace has a provider
\* customer and its event type a provider meter.
EventOf(d) == unwrap(body[dl[d].msg])
UsageDeliveries == {d \in Deliveries : body[dl[d].msg].topic = "usage"}
Meterable(b) ==
  /\ b.topic = "usage" /\ parse_ok(b)
  /\ unwrap(b).valKind = "num" /\ unwrap(b).value > 0
  /\ unwrap(b).workspace_id \in customers
  /\ EVENT_TYPE_TO_METER(unwrap(b).event_type) # None

\* C5.  Provider push is fatal on the queued path: a delivery whose meter push
\* failed ends raised and abandoned with no push recorded, no counter
\* increment and no delete, and the step in which it fails changes neither the
\* counters nor the provider totals nor the queue; a meterable usage message is
\* acked only by a delivery whose provider push succeeded.
C5_State ==
  \A d \in UsageDeliveries :
    /\ dl[d].err = "raise_push" =>
         /\ dl[d].res = "raised" /\ dl[d].st = "abandoned"
         /\ ~dl[d].pushed /\ dl[d].incr = "none" /\ dl[d].deletes = 0
    /\ dl[d].st = "acked" /\ Meterable(body[dl[d].msg]) => dl[d].pushed
    /\ dl[d].deletes > 0 /\ Meterable(body[dl[d].msg]) => dl[d].pushed
C5_Step ==
  \A d \in UsageDeliveries :
    dl[d].err # "raise_push" /\ dl'[d].err = "raise_push" =>
      counter' = counter /\ metered' = metered /\ vis' = vis
C5_PushFailureFatal == []C5_State /\ [][C5_Step]_vars
C5_Witness ==
  \E d1, d2 \in UsageDeliveries :
    /\ d1 < d2 /\ dl[d1].msg = dl[d2].msg
    /\ dl[d1].err = "raise_push" /\ vis[dl[d1].msg] = "deleted"
    /\ dl[d2].st = "acked" /\ dl[d2].pushed

\* C6.  Counter update is non-fatal on the queued path: a delivery whose
\* counter increment failed after a successful push has a handler that
\* returned and a delete issued (so it is acked unless the delete itself
\* fails or the task is cancelled in it); the failing step leaves the counters
\* and the provider totals as they were and takes the loop to the delete.
C6_State ==
  \A d \in UsageDeliveries :
    dl[d].incr = "failed" =>
      /\ dl[d].pushed /\ dl[d].res = "returned" /\ dl[d].deletes = 1
      /\ dl[d].st = "abandoned" => dl[d].err \in {"delete", "cancel"}
      /\ metered[<<EventOf(d).workspace_id, EVENT_TYPE_TO_METER(EventOf(d).event_type)>>]
           >= EventOf(d).value
C6_Step ==
  \A d \in UsageDeliveries :
    dl[d].incr # "failed" /\ dl'[d].incr = "failed" =>
      counter' = counter /\ metered' = metered /\ pc'["usage"] = "delete"
C6_CounterFailureNonFatal == []C6_State /\ [][C6_Step]_vars
C6_Witness ==
  \E d \in UsageDeliveries :
    /\ dl[d].incr = "failed" /\ dl[d].st = "acked"
    /\ counter[USAGE_COUNTER_KEY(EventOf(d).workspace_id, EventOf(d).event_type)] = Absent
    /\ metered[<<EventOf(d).workspace_id, EVENT_TYPE_TO_METER(EventOf(d).event_type)>>]
         = EventOf(d).value

ValueOf(m) == unwrap(body[m]).value
\* The sum of the values of the messages in S.
RECURSIVE SumValues(_)
SumValues(S) ==
  IF S = {} THEN 0
  ELSE LET x == CHOOSE y \in S : TRUE IN ValueOf(x) + SumValues(S \ {x})
\* The usage messages of which some delivery pushed to the meter k / had its
\* counter increment applied to the counter key k.
PushedMsgs(k) ==
  {m \in MsgIds : /\ Meterable(body[m])
                  /\ <<unwrap(body[m]).workspace_id,
                       EVENT_TYPE_TO_METER(unwrap(body[m]).event_type)>> = k
                  /\ \E d \in DeliveriesOf(m) : dl[d].pushed}
CountedMsgs(k) ==
  {m \in MsgIds : /\ Meterable(body[m])
                  /\ USAGE_COUNTER_KEY(unwrap(body[m]).workspace_id,
                                       unwrap(body[m]).event_type) = k
                  /\ \E d \in DeliveriesOf(m) : dl[d].incr = "ok"}

\* C7.  Idempotent usage handling: however often a usage message is
\* delivered, the provider's metered total and the counter are what handling
\* each message once gives: the sum of the values of the messages pushed
\* (counted) at least once.
C7_IdempotentUsage ==
  /\ \A k \in MeteredKeys : metered[k] = SumValues(PushedMsgs(k))
  /\ \A k \in CounterKeys : get_float(counter, k) = SumValues(CountedMsgs(k))

\* C8.  Counter atomicity: in every interleaving of the usage consumer's and
\* record()'s increments, each counter holds its initial value plus the sum
\* of the amounts of the increments applied to it, which is N*a for N
\* increments of the same amount a; and the total a record() call returns is
\* the counter right after its own addition.
C8_State ==
  \A k \in CounterKeys :
    /\ get_float(counter, k) = base[k] + SumSeq(incs[k])
    /\ \A a \in 1..MaxUsage :
         (\A j \in DOMAIN incs[k] : incs[k][j] = a)
           => get_float(counter, k) = base[k] + Len(incs[k]) * a
C8_Step ==
  \A i \in Slots :
    (req[i].op = "record" /\ req[i].pc = "incr" /\ req'[i].pc = "done") =>
      LET k == USAGE_COUNTER_KEY(req[i].w, req[i].meter) IN
        /\ req'[i].total = get_float(counter, k) + req[i].value
        /\ req'[i].total = counter'[k]
C8_CounterAtomicity == []C8_State /\ [][C8_Step]_vars

\* Three increments of the same counter, which held 1 at the start: a
\* record() call has returned the total 2 while the usage consumer and
\* another record() call are suspended in their increments.
C8_Witness ==
  /\ base[CounterKey] = 1
  /\ pc["usage"] = "incr"
  /\ \E i, j \in Slots :
       /\ req[i].op = "record" /\ req[i].pc = "incr"
       /\ req[j].op = "record" /\ req[j].pc = "done" /\ req[j].total = 2
  /\ Len(incs[CounterKey]) = 1

\* C9.  Quota check: a check_usage_limit(W, M) call returns TRUE exactly
\* when the snapshot it obtained has a limit for M and the live counter of
\* (W, M), read when it is about to return, is at least that limit; without
\* a usage entry for M it returns FALSE; the usage stored in the snapshot
\* plays no part.
C9_State ==
  \A i \in Slots :
    (req[i].op = "check" /\ req[i].pc = "done"
       /\ req[i].meter \notin DOMAIN req[i].snap[1].usage) => ~req[i].result
C9_Step ==
  \A i \in Slots :
    (req'[i].op = "check" /\ req'[i].pc = "done" /\ req[i].pc # "done") =>
      LET S == req'[i].snap[1]
          M == req'[i].meter
          v == get_float(counter, USAGE_COUNTER_KEY(req'[i].w, M))
      IN req'[i].result = (M \in DOMAIN S.usage /\ v >= S.usage[M].limit)
C9_QuotaCheck == []C9_State /\ [][C9_Step]_vars

\* A check answered TRUE from a cached snapshot whose stored usage is below
\* the limit, the live counter having reached it.
C9_Witness ==
  \E i \in Slots :
    /\ req[i].op = "check" /\ req[i].pc = "done" /\ req[i].result
    /\ req[i].snap[1].cached
    /\ req[i].snap[1].usage[req[i].meter].used < req[i].snap[1].usage[req[i].meter].limit
    /\ get_float(counter, USAGE_COUNTER_KEY(req[i].w, req[i].meter))
         >= req[i].snap[1].usage[req[i].meter].limit

\* The deliveries of "customer.subscription.updated" events that resolve to
\* a workspace.
UpdateDeliveries ==
  {d \in Deliveries :
     /\ body[dl[d].msg].topic = "stripe" /\ parse_ok(body[dl[d].msg])
     /\ EventOf(d).event_type = "customer.subscription.updated"
     /\ _extract_workspace_id(EventOf(d)) # None}

\* C10.  Period rollover in the billing handler: when the handler of a
\* subscription update for workspace W has returned, W's cache entry was
\* deleted, and the counters of all members of UsageEventType were reset if
\* the previous attributes the handler reads contain the period start, and
\* none was reset otherwise.  A counter changes only by such a reset to 0;
\* when the handler returns, W has no cache entry and, after a renewal,
\* every tracked counter of W is 0.
C10_State ==
  \A d \in UpdateDeliveries :
    dl[d].res = "returned" =>
      /\ dl[d].inval
      /\ dl[d].resets = IF EventOf(d).obj_prev THEN UsageEventType ELSE {}
C10_Step ==
  /\ counter' # counter =>
       /\ pc["stripe"] = "reset"
       /\ Cur("stripe") \in UpdateDeliveries
       /\ EventOf(Cur("stripe")).obj_prev
       /\ \E meter \in UsageEventType :
            counter' = [counter EXCEPT
              ![USAGE_COUNTER_KEY(_extract_workspace_id(EventOf(Cur("stripe"))), meter)] = 0]
  /\ \A d \in UpdateDeliveries :
       (dl[d].res = "none" /\ dl'[d].res = "returned") =>
         LET W == _extract_workspace_id(EventOf(d)) IN
           /\ cache'[W] = <<>>
           /\ EventOf(d).obj_prev =>
                \A meter \in UsageEventType : counter'[USAGE_COUNTER_KEY(W, meter)] = 0
C10_PeriodRollover == []C10_State /\ [][C10_Step]_vars

\* A renewal of ws_2 was handled over counters that all held 2 and a cache
\* with all entries: the four tracked counters of ws_2 are 0 and its entry
\* is gone, while its other counters and those of ws_1, and the entry of
\* ws_1, are as they were.
C10_Witness ==
  \E d \in UpdateDeliveries :
    /\ dl[d].res = "returned" /\ EventOf(d).obj_prev
    /\ dl[d].resets = UsageEventType
    /\ \A meter \in UsageEventType : counter[<<"ws_2", meter>>] = 0
    /\ \A meter \in MeterKeys \ UsageEventType : counter[<<"ws_2", meter>>] = 2
    /\ \A meter \in MeterKeys : counter[<<"ws_1", meter>>] = 2
    /\ cache["ws_2"] = <<>> /\ cache["ws_1"] # <<>>

\* C11.  Period rollover end to end: when the handler of a subscription
\* update that the webhook receiver enqueued for a renewal (the previous
\* attributes under data contain the period start) has returned, the
\* counters of all members of UsageEventType of that workspace were reset.
C11_RolloverEndToEnd ==
  \A d \in UpdateDeliveries :
    (dl[d].res = "returned" /\ EventOf(d).data_prev) =>
      dl[d].resets = UsageEventType


\* What the handler's validation rejects: no workspace id, no event type, or
\* a value (0 when the key is absent) that is not positive.
Malformed(ev) ==
  /\ ev.valKind # "text"
  /\ \/ ev.workspace_id = None
     \/ ev.event_type = None
     \/ (IF ev.valKind = "missing" THEN 0 ELSE ev.value) <= 0
MalformedDeliveries ==
  {d \in UsageDeliveries : parse_ok(body[dl[d].msg]) /\ Malformed(EventOf(d))}

\* C12.  Malformed usage message on the queued path: for a usage message
\* (its value a number or absent) without workspace id, without event type
\* or with a value <= 0, the handler call returns in the step it is made in,
\* before the customer search, leaving the provider totals and the counters
\* as they were, and the loop goes on to the delete; such a delivery never
\* has a push or an increment, its handler never raises, and it ends
\* abandoned only when the delete itself failed or was cancelled.
C12_State ==
  \A d \in MalformedDeliveries :
    /\ ~dl[d].pushed /\ dl[d].incr = "none" /\ dl[d].res \in {"none", "returned"}
    /\ dl[d].calls > 0 => dl[d].res = "returned" /\ dl[d].deletes = 1
    /\ dl[d].st = "abandoned" => dl[d].err \in {"delete", "cancel"}
C12_Step ==
  \A d \in MalformedDeliveries :
    d \in DOMAIN dl' /\ dl[d].calls = 0 /\ dl'[d].calls = 1 =>
      /\ dl'[d].err = "drop_invalid" /\ dl'[d].res = "returned"
      /\ metered' = metered /\ counter' = counter
      /\ pc'["usage"] = "delete"
Recorded == {i \in Slots : req[i].op = "record" /\ req[i].pc \in {"incr", "done"}}

\* C13.  Malformed usage event on the synchronous path: a record() call that
\* made a provider meter push, and so goes on to the counter increment or
\* has made it, is one for an event whose value is positive.
C13_RecordRejectsNonPositive ==
  \A i \in Recorded : req[i].value > 0


\* C14.  Synchronous record, success case: the step in which a record()
\* call passes the customer search and the meter lookup adds event.value
\* once to the provider total of the workspace's meter, changes no other
\* total and no counter, and is made for a workspace with a provider
\* customer and an event type with a meter; the step in which its increment
\* returns adds event.value to the (workspace, event type) counter (0 when
\* the key is missing), changes nothing else, and the call returns that new
\* counter value as current_total.
C14_Step ==
  \A i \in Slots :
    /\ (req[i].pc = "idle" /\ req'[i].op = "record" /\ req'[i].pc = "incr") =>
         LET r == req'[i]
             k == <<r.w, EVENT_TYPE_TO_METER(r.meter)>>
         IN /\ r.w \in customers /\ k \in MeteredKeys
            /\ metered' = [metered EXCEPT ![k] = @ + r.value]
            /\ counter' = counter
    /\ (req[i].op = "record" /\ req[i].pc = "incr" /\ req'[i].pc = "done") =>
         LET k == USAGE_COUNTER_KEY(req[i].w, req[i].meter) IN
           /\ counter' = [counter EXCEPT ![k] = get_float(counter, k) + req[i].value]
           /\ metered' = metered
           /\ req'[i].total = counter'[k]
           /\ req'[i].status = 200
C14_State ==
  \A i \in Slots :
    req[i].op = "record" /\ req[i].pc = "done" =>
      req[i].w \in customers /\ EVENT_TYPE_TO_METER(req[i].meter) # None
C14_RecordSuccess == []C14_State /\ [][C14_Step]_vars
\* A first event of value 3 for ("ws_2", "ai_credits"): one push of 3, the
\* counter at 3, the returned total 3.
C14_Witness ==
  \E i \in Slots :
    /\ req[i].op = "record" /\ req[i].pc = "done"
    /\ req[i].w = "ws_2" /\ req[i].meter = "ai_credits" /\ req[i].value = 3
    /\ req[i].total = 3
    /\ base[CounterKey] = 0 /\ counter[CounterKey] = 3
    /\ metered[<<"ws_2", "ai_credits">>] = 3
    /\ \A j \in Slots \ {i} : req[j].pc = "idle"


\* C15.  Synchronous record, failure ordering: a counter changes only in the
\* step in which the increment of a call that made its push returns, and
\* such a call is one for a workspace with a provider customer; the step in
\* which a call fails for want of a customer (ValueError, status 400) or
\* because the push failed (status 500) changes neither the provider totals
\* nor the counters, and the failed call never reaches the increment.
C15_State ==
  \A i \in Slots :
    /\ i \in Recorded => req[i].w \in customers
    /\ req[i].err = "raise_no_customer" => req[i].pc = "failed" /\ req[i].status = 400
    /\ req[i].err = "raise_push" => req[i].pc = "failed" /\ req[i].status = 500
C15_Step ==
  /\ counter' # counter =>
       \E i \in Recorded : req[i].pc = "incr" /\ req'[i].pc = "done"
  /\ \A i \in Slots :
       /\ (req[i].pc = "failed") => req'[i] = req[i]
       /\ (req[i].pc # "failed" /\ req'[i].err \in {"raise_no_customer", "raise_push"}) =>
            /\ req[i].pc = "idle"
            /\ metered' = metered /\ counter' = counter
C15_RecordFailureOrdering == []C15_State /\ [][C15_Step]_vars
\* One call has failed for want of a customer and one because the push
\* failed; no push is recorded and the counters are as at the start.
C15_Witness ==
  /\ \E i, j \in Slots :
       /\ req[i].op = "record" /\ req[i].err = "raise_no_customer"
       /\ req[j].op = "record" /\ req[j].err = "raise_push"
  /\ \A k \in MeteredKeys : metered[k] = 0
  /\ \A k \in CounterKeys : get_float(counter, k) = base[k] /\ incs[k] = <<>>


\* The get() calls without refresh that are suspended in the cache read
\* while a live entry of their workspace exists.
Hitting == {i \in Slots : req[i].op = "get" /\ req[i].pc = "cache_get"
                          /\ cache[req[i].w] # <<>>}

\* C16.  Cache hit is read-only: when the cache read of a get(W,
\* refresh=false) returns while W has a live entry, the call returns in the
\* same step, without going to the provider, the stored snapshot with
\* cached set to true and nothing else changed, and the step leaves the
\* store as it was: the entry, its cached_at and its expiry, the other
\* entries and the counters.  The only other way the read ends is an error
\* of the store.
C16_Step ==
  \A i \in Hitting :
    req'[i] # req[i] =>
      /\ cache' = cache /\ counter' = counter /\ now' = now /\ metered' = metered
      /\ \/ req'[i].pc = "failed" /\ req'[i].err = "raise_cache_get"
         \/ /\ req'[i].pc = "done" /\ req'[i].status = 200
            /\ req'[i].snap = <<[cache[req[i].w][1] EXCEPT !.cached = TRUE]>>
C16_State ==
  \A i \in Slots :
    (req[i].op = "get" /\ req[i].pc = "done" /\ req[i].snap[1].cached) =>
      ~req[i].refresh /\ req[i].snap[1].cached_at # Absent
C16_CacheHitReadOnly == []C16_State /\ [][C16_Step]_vars
\* One second after the entry of ws_2 was written a get() has returned it
\* as a hit: the entry still carries the time of its writing and expires
\* when it would have without the read.
C16_Witness ==
  /\ now = 1
  /\ cache["ws_2"] = <<stamped(fetched_snapshot("ws_2"), 0), ENTITLEMENT_CACHE_TTL>>
  /\ \E i \in Slots :
       /\ req[i].op = "get" /\ req[i].pc = "done" /\ req[i].w = "ws_2"
       /\ req[i].snap[1].cached /\ req[i].snap[1].cached_at = 0
  /\ \A i \in Slots : req[i].op \in {"none", "get"} /\ ~req[i].refresh


\* The get() calls without refresh that are suspended in the cache read
\* while their workspace has no live entry.
Missing == {i \in Slots : req[i].op = "get" /\ req[i].pc = "cache_get"
                          /\ cache[req[i].w] = <<>>}
\* The TTL a get() with the override ttl is to store its snapshot with.
ExpectedTtl(ttl) ==
  IF ttl # <<>> /\ ttl[1] > 0 THEN ttl[1] ELSE ENTITLEMENT_CACHE_TTL

\* C17.  Cache miss and TTL expiry: an entry is gone once its TTL has
\* elapsed; when the cache read of a get(W, refresh=false) returns while W
\* has no live entry, the call goes to the provider and, unless the store or
\* the provider fails, has the rebuilt snapshot stamped with the time and
\* cached=false; its cache write stores that snapshot to expire after the
\* override (when one is given that is not 0) or the default, and the call
\* returns it; every entry in the store has a stamped snapshot and an
\* expiry no later than the longest TTL from now.
C17_State ==
  \A w \in Workspaces :
    cache[w] # <<>> =>
      /\ now < cache[w][2] /\ cache[w][2] <= now + ENTITLEMENT_CACHE_TTL
      /\ cache[w][1].cached_at # Absent /\ cache[w][1].cached_at <= now
      /\ ~cache[w][1].cached
C17_Step ==
  /\ \A i \in Missing :
       req'[i] # req[i] =>
         /\ cache' = cache /\ now' = now
         /\ \/ req'[i].pc = "failed"
                 /\ req'[i].err \in {"raise_cache_get", "raise_provider"}
            \/ /\ req'[i].pc = "cache_set"
               /\ req'[i].snap = <<stamped(fetched_snapshot(req[i].w), now)>>
               /\ ~req'[i].snap[1].cached
  /\ \A i \in Slots :
       (req[i].op = "get" /\ req[i].pc = "cache_set" /\ req'[i].pc = "done") =>
         /\ cache' = [cache EXCEPT ![req[i].w] =
                        <<req[i].snap[1], now + ExpectedTtl(req[i].ttl)>>]
         /\ req'[i].snap = req[i].snap /\ ~req'[i].snap[1].cached
         /\ req'[i].status = 200
C17_CacheMissRebuild == []C17_State /\ [][C17_Step]_vars
\* A get() with a TTL of 1 wrote the entry of ws_2 at time 0; one second
\* later a get() without refresh found no live entry, rebuilt, and stored
\* the snapshot stamped 1 with the default TTL.
C17_Witness ==
  /\ now = 1
  /\ cache["ws_2"] = <<stamped(fetched_snapshot("ws_2"), 1), 1 + ENTITLEMENT_CACHE_TTL>>
  /\ \E i, j \in Slots :
       /\ req[i].op = "get" /\ req[i].pc = "done" /\ req[i].ttl = <<1>>
       /\ req[i].snap[1].cached_at = 0 /\ ~req[i].snap[1].cached
       /\ req[j].op = "get" /\ req[j].pc = "done" /\ ~req[j].refresh
       /\ req[j].ttl = <<>> /\ req[j].w = "ws_2"
       /\ req[j].snap[1].cached_at = 1 /\ ~req[j].snap[1].cached


\* C18.  Refresh bypass: a get(W, refresh=true) goes to the provider in the
\* step in which it is called, whatever the cache holds, and never waits in
\* the cache read; unless the provider fails it has the rebuilt snapshot,
\* stamped with the time and cached=false; its cache write replaces W's
\* entry, live or not, by that snapshot with a TTL counted from the write,
\* and the call returns the snapshot with cached=false.
C18_State ==
  \A i \in Slots :
    (req[i].op = "get" /\ req[i].refresh) =>
      /\ req[i].pc \in {"cache_set", "done"}
      /\ ~req[i].snap[1].cached
C18_Step ==
  \A i \in Slots :
    /\ (req[i].pc = "idle" /\ req'[i].op = "get" /\ req'[i].refresh) =>
         /\ req'[i].pc = "cache_set"
         /\ req'[i].snap = <<stamped(fetched_snapshot(req'[i].w), now)>>
         /\ cache' = cache
    /\ (req[i].pc = "idle" /\ req'[i].op = "get" /\ req'[i].pc = "failed") =>
         req'[i].err = "raise_provider" /\ cache' = cache
    /\ (req[i].op = "get" /\ req[i].refresh /\ req'[i] # req[i]) =>
         \/ req'[i].pc = "failed" /\ req'[i].err = "raise_cache_set" /\ cache' = cache
         \/ /\ req'[i].pc = "done" /\ req'[i].snap = req[i].snap
            /\ cache' = [cache EXCEPT ![req[i].w] =
                           <<req[i].snap[1], now + ExpectedTtl(req[i].ttl)>>]
C18_RefreshBypass == []C18_State /\ [][C18_Step]_vars
\* The entry of ws_2 written at time 0 was returned as a hit; at time 1,
\* while it was live, a get() with refresh replaced it by a snapshot stamped
\* 1 that expires a full TTL later, and returned cached=false.
C18_Witness ==
  /\ now = 1
  /\ cache["ws_2"] = <<stamped(fetched_snapshot("ws_2"), 1), 1 + ENTITLEMENT_CACHE_TTL>>
  /\ \E i, j \in Slots :
       /\ req[i].op = "get" /\ req[i].pc = "done" /\ ~req[i].refresh
       /\ req[i].snap[1].cached /\ req[i].snap[1].cached_at = 0
       /\ req[j].op = "get" /\ req[j].pc = "done" /\ req[j].refresh
       /\ req[j].w = "ws_2"
       /\ ~req[j].snap[1].cached /\ req[j].snap[1].cached_at = 1
  /\ \A i \in Slots : req[i].op = "get"


\* C19.  Invalidation idempotence: the step in which the DEL of an
\* invalidate(W) returns leaves W without entry, whether it had one or not,
\* and changes no other entry and no counter; when W had no entry, as after
\* an invalidate(W) just before, the store after the step is the store
\* before it.  The call fails only when the store command itself fails,
\* never for a missing key.
C19_Step ==
  \A i \in Slots :
    (req[i].op = "invalidate" /\ req[i].pc = "cache_del" /\ req'[i] # req[i]) =>
      \/ /\ req'[i].pc = "failed" /\ req'[i].err = "raise_cache_del"
         /\ cache' = cache /\ counter' = counter
      \/ /\ req'[i].pc = "done" /\ req'[i].status = 200
         /\ cache' = [cache EXCEPT ![req[i].w] = <<>>]
         /\ counter' = counter
         /\ cache[req[i].w] = <<>> => cache' = cache
C19_InvalidateIdempotent == [][C19_Step]_vars
\* Two invalidate("ws_2") calls have returned one after the other, the
\* second one having found no entry: ws_2 has no entry and neither call
\* failed.
C19_Witness ==
  /\ cache["ws_2"] = <<>>
  /\ \A i \in Slots :
       req[i].op = "invalidate" /\ req[i].pc = "done" /\ req[i].w = "ws_2"


\* The free-tier answer for workspace w.
FreeTier(snap, w) ==
  /\ snap.workspace_id = w
  /\ ~snap.has_active_subscription /\ snap.plan_tier = "free"
  /\ snap.subscription_status = None /\ ~snap.is_quota_exceeded
  /\ ~snap.cached

\* C20.  Default-open free tier: a get(W) that finds no cache entry for a
\* workspace W without provider customer ends its cache read with the
\* free-tier snapshot (no active subscription, plan tier free, cached=false)
\* unless the store or the provider call itself failed; the want of a
\* customer is no error.  The call stores that snapshot and returns it.
C20_State ==
  \A i \in Slots :
    (req[i].op = "get" /\ req[i].w \notin customers /\ req[i].snap # <<>>) =>
      /\ ~req[i].snap[1].has_active_subscription
      /\ req[i].snap[1].plan_tier = "free"
      /\ req[i].pc = "cache_set" => FreeTier(req[i].snap[1], req[i].w)
C20_Step ==
  \A i \in Slots :
    /\ (i \in Missing /\ req[i].w \notin customers /\ req'[i] # req[i]) =>
         \/ req'[i].pc = "failed"
              /\ req'[i].err \in {"raise_cache_get", "raise_provider"}
         \/ req'[i].pc = "cache_set" /\ FreeTier(req'[i].snap[1], req[i].w)
    /\ (req[i].op = "get" /\ req[i].w \notin customers /\ req[i].pc = "cache_set"
          /\ req'[i] # req[i]) =>
         \/ req'[i].pc = "failed" /\ req'[i].err = "raise_cache_set"
         \/ /\ req'[i].pc = "done" /\ req'[i].status = 200
            /\ FreeTier(req'[i].snap[1], req[i].w)
C20_DefaultOpenFreeTier == []C20_State /\ [][C20_Step]_vars
\* get("ws_1") has returned the free-tier snapshot for a workspace without
\* customer, and nothing else was called.
C20_Witness ==
  \E i \in Slots :
    /\ req[i].op = "get" /\ req[i].pc = "done" /\ req[i].status = 200
    /\ req[i].w = "ws_1" /\ "ws_1" \notin customers
    /\ FreeTier(req[i].snap[1], "ws_1")
    /\ cache["ws_1"] # <<>> /\ cache["ws_1"][1] = req[i].snap[1]
    /\ \A j \in Slots \ {i} : req[j].pc = "idle"


\* The deliveries of billing events, the event types whose handlers
\* invalidate, and the workspace such an event resolves to.
StripeDeliveries ==
  {d \in Deliveries : body[dl[d].msg].topic = "stripe" /\ parse_ok(body[dl[d].msg])}
SubscriptionTypes ==
  {"customer.subscription.created", "customer.subscription.updated",
   "customer.subscription.deleted"}
InvoiceTypes == {"invoice.paid", "invoice.payment_failed"}
ResolvedWorkspace(ev) ==
  IF ev.event_type \in SubscriptionTypes THEN _extract_workspace_id(ev)
  ELSE IF ev.event_type \in InvoiceTypes THEN _extract_workspace_id_from_invoice(ev)
  ELSE None

\* C21.  Invalidating billing events: when the handler of a subscription
\* created, updated or deleted event or of an invoice paid or payment failed
\* event that resolves to workspace W has returned, it has deleted W's cache
\* entry; with no reader about, W has no entry from then on.
C21_InvalidatingEvents ==
  \A d \in StripeDeliveries :
    LET W == ResolvedWorkspace(EventOf(d)) IN
      (dl[d].res = "returned" /\ W # None) => dl[d].inval /\ cache[W] = <<>>
\* A failed invoice payment that resolves to ws_2 through its subscription
\* object was handled and acked: the entry of ws_2 is gone, that of ws_1 is
\* in place.
C21_Witness ==
  \E d \in StripeDeliveries :
    /\ EventOf(d).event_type = "invoice.payment_failed"
    /\ ResolvedWorkspace(EventOf(d)) = "ws_2"
    /\ dl[d].res = "returned" /\ dl[d].st = "acked"
    /\ cache["ws_2"] = <<>> /\ cache["ws_1"] # <<>>


\* C22.  Fresh read after invalidation, under concurrency: a get(W,
\* refresh=false) that was called after the handlers of some number of
\* invalidating events for W had returned does not return as a hit a
\* snapshot for which the provider was read before the last of those
\* invalidations.
C22_FreshAfterInvalidation ==
  \A i \in Slots :
    (req[i].op = "get" /\ ~req[i].refresh /\ req[i].pc = "done"
       /\ req[i].snap[1].cached) =>
      req[i].snap[1].seen >= req[i].after


\* C23.  Past-due visibility: while W's subscription at the provider is
\* past due, a get(W) called after the handler of a failed invoice payment
\* for W has returned, and answered from a provider read made after that
\* invalidation, returns subscription_status = past_due and payment_overdue
\* = true.
C23_PastDueVisible ==
  \A i \in Slots :
    (/\ req[i].op = "get" /\ req[i].pc = "done"
     /\ subs[req[i].w] # <<>> /\ subs[req[i].w][1].status = "past_due"
     /\ req[i].after >= 1 /\ req[i].snap[1].seen >= req[i].after) =>
      /\ req[i].snap[1].subscription_status = "past_due"
      /\ req[i].snap[1].payment_overdue


\* A billing event that calls for no action: of a notification-only type,
\* of a type the dispatch does not know, or without resolvable workspace id.
NonActionable(ev) ==
  \/ ev.event_type \in {"customer.subscription.trial_will_end", "invoice.upcoming",
                        "billing.meter.usage_reported"}
  \/ ev.event_type \notin SubscriptionTypes \cup InvoiceTypes
  \/ ResolvedWorkspace(ev) = None
NonActionableDeliveries == {d \in StripeDeliveries : NonActionable(EventOf(d))}

\* C24.  Non-actionable billing events: the handler call for such an event
\* returns in the step it is made in, leaving every cache entry and every
\* counter as it was, and the loop goes on to the delete; such a delivery
\* never has an invalidation or a reset, its handler never raises, and it
\* ends abandoned only when the delete itself failed.
C24_State ==
  \A d \in NonActionableDeliveries :
    /\ ~dl[d].inval /\ dl[d].resets = {} /\ dl[d].res \in {"none", "returned"}
    /\ dl[d].calls > 0 => dl[d].res = "returned" /\ dl[d].deletes = 1
    /\ dl[d].st = "abandoned" => dl[d].err = "delete"
C24_Step ==
  \A d \in NonActionableDeliveries :
    d \in DOMAIN dl' /\ dl[d].calls = 0 /\ dl'[d].calls = 1 =>
      /\ dl'[d].res = "returned"
      /\ cache' = cache /\ counter' = counter
      /\ pc'["stripe"] = "delete"
C24_NonActionableEvents == []C24_State /\ [][C24_Step]_vars
\* An ending trial of ws_2 and an event of unknown type were handled and
\* acked, and the consumer polls again: the entries and the counters are
\* those of the start.
C24_Witness ==
  /\ pc["stripe"] = "poll"
  /\ \A w \in Workspaces : cache[w] # <<>>
  /\ \A k \in CounterKeys : counter[k] = 2
  /\ \E d1, d2 \in NonActionableDeliveries :
       /\ dl[d1].st = "acked" /\ dl[d2].st = "acked"
       /\ EventOf(d1).event_type = "customer.subscription.trial_will_end"
       /\ EventOf(d2).event_type = "charge.refunded"


\* The workspace id of an invoice event by three tiers: the invoice's
\* metadata, else the subscription object's, else the first line item's that
\* has one.
Tiered(ev) ==
  IF ev.workspace_id # None THEN ev.workspace_id
  ELSE IF ev.sub_dict /\ ev.sub_ws # None THEN ev.sub_ws
  ELSE ev.line_ws
InvoiceDeliveries ==
  {d \in StripeDeliveries : EventOf(d).event_type \in InvoiceTypes}

\* C25.  Tiered extraction for invoice events: a paid or failed invoice whose
\* handler returned was taken for the workspace the three tiers give, its
\* entry deleted, and was taken as unresolvable only when no tier has an id.
C25_TieredInvoiceExtraction ==
  \A d \in InvoiceDeliveries :
    dl[d].res = "returned" =>
      /\ handle_stripe_event(EventOf(d)) = Tiered(EventOf(d))
      /\ dl[d].inval <=> Tiered(EventOf(d)) # None
      /\ Tiered(EventOf(d)) # None => cache[Tiered(EventOf(d))] = <<>>


PaymentDeliveries == {d \in Deliveries : body[dl[d].msg].topic = "payment"}
KnownSources == {"razorpay", "manual_reconciliation", "zoho_books"}
\* A captured gateway payment or a manual reconciliation.
CapturedOrManual(ev) ==
  \/ ev.source = "razorpay" /\ ev.event_type = "payment.captured"
  \/ ev.source = "manual_reconciliation"
\* The invoice id such an event carries: in the notes of the gateway's
\* payment entity, at the top level of a manual reconciliation.
InvoiceId(ev) == IF ev.source = "razorpay" THEN ev.notes_invoice ELSE ev.invoice
WorkspaceId(ev) == IF ev.source = "razorpay" THEN ev.notes_ws ELSE ev.workspace_id
\* Payment events that cannot or need not be reconciled.
Unreconcilable(ev) ==
  \/ CapturedOrManual(ev) /\ InvoiceId(ev) = None
  \/ ev.source = "razorpay" /\ ev.event_type = "payment.failed"
  \/ ev.source \notin KnownSources
Reconcilable(ev) == CapturedOrManual(ev) /\ InvoiceId(ev) # None

\* C26.  Payment events that are not reconciled: for a captured or manual
\* payment without invoice id, a failed gateway payment and an event of an
\* unknown source the handler call returns in the step it is made in, with no
\* invoice marked paid and the cache as it was, and the loop goes on to the
\* delete; such a delivery never invalidates, never raises and ends abandoned
\* only when the delete itself failed.
C26_State ==
  \A d \in PaymentDeliveries :
    Unreconcilable(EventOf(d)) =>
      /\ ~dl[d].paid /\ ~dl[d].inval /\ dl[d].res \in {"none", "returned"}
      /\ dl[d].calls > 0 => dl[d].res = "returned" /\ dl[d].deletes = 1
      /\ dl[d].st = "abandoned" => dl[d].err = "delete"
      /\ dl[d].st = "acked" => vis[dl[d].msg] = "deleted"
C26_Step ==
  \A d \in PaymentDeliveries :
    (/\ Unreconcilable(EventOf(d))
     /\ d \in DOMAIN dl' /\ dl[d].calls = 0 /\ dl'[d].calls = 1) =>
      /\ dl'[d].res = "returned" /\ ~dl'[d].paid
      /\ cache' = cache
      /\ pc'["payment"] = "delete"
C26_UnreconciledPayments == []C26_State /\ [][C26_Step]_vars
\* A failed gateway payment and a captured one without invoice id were
\* handled and acked; every workspace still has its entry.
C26_Witness ==
  /\ \A w \in Workspaces : cache[w] # <<>>
  /\ \E d1, d2 \in PaymentDeliveries :
       /\ dl[d1].st = "acked" /\ dl[d2].st = "acked"
       /\ EventOf(d1).event_type = "payment.failed"
       /\ EventOf(d2).source = "razorpay"
       /\ EventOf(d2).event_type = "payment.captured"
       /\ EventOf(d2).notes_invoice = None

\* C27.  Reconciliation ordering: for a captured or manual payment with an
\* invoice id the invalidation is awaited, and the cache changed, only for a
\* delivery whose mark-paid call succeeded; a handler that returned has marked
\* the invoice paid; a failed mark-paid ends the delivery raised and
\* abandoned, the message undeleted, without invalidation or delete, in a step
\* that leaves the cache as it was.
C27_State ==
  \A d \in PaymentDeliveries :
    Reconcilable(EventOf(d)) =>
      /\ dl[d].inval => dl[d].paid
      /\ (pc["payment"] = "inval" /\ Cur("payment") = d) => dl[d].paid
      /\ dl[d].res = "returned" =>
           /\ dl[d].paid
           /\ WorkspaceId(EventOf(d)) # None => dl[d].inval
      /\ dl[d].err = "raise_paid" =>
           /\ dl[d].res = "raised" /\ dl[d].st = "abandoned"
           /\ ~dl[d].paid /\ ~dl[d].inval /\ dl[d].deletes = 0
           /\ vis[dl[d].msg] # "deleted"
C27_Step ==
  /\ cache' # cache =>
       /\ pc["payment"] = "inval" /\ dl[Cur("payment")].paid
       /\ cache' = delete_cached(cache, WorkspaceId(EventOf(Cur("payment"))))
  /\ \A d \in PaymentDeliveries :
       (/\ Reconcilable(EventOf(d))
        /\ d \in DOMAIN dl' /\ dl[d].calls = 0 /\ dl'[d].calls = 1) =>
         /\ cache' = cache
         /\ \/ dl'[d].paid
            \/ dl'[d].err = "raise_paid" /\ pc'["payment"] # "inval"
C27_ReconciliationOrdering == []C27_State /\ [][C27_Step]_vars
\* One reconciliation failed at mark-paid and was abandoned; a later one for
\* ws_2 marked the invoice paid, invalidated and was acked.
C27_Witness ==
  /\ cache["ws_2"] = <<>> /\ cache["ws_1"] # <<>>
  /\ \E d1, d2 \in PaymentDeliveries :
       /\ d1 < d2
       /\ dl[d1].err = "raise_paid" /\ dl[d1].st = "abandoned"
       /\ dl[d2].paid /\ dl[d2].inval /\ dl[d2].st = "acked"


\* C28.  Monotonic counters: a step lowers the value of a counter only when
\* it is a reset of that counter.
C28_MonotonicCounters ==
  [][\A k \in CounterKeys :
       get_float(counter', k) < get_float(counter, k) =>
         /\ counter'[k] = 0
         /\ \E q \in Topics : pc[q] = "reset" /\ k[2] = UsageEventTypeSeq[ridx[q]]]_vars

\* C29.  Counter expiry: every counter key that exists has an expiry, at most
\* the long TTL ahead.
C29_CounterExpiry ==
  \A k \in CounterKeys :
    counter[k] # Absent => expiry[k] # Absent /\ expiry[k] <= now + COUNTER_TTL


Started == {q \in Topics : pc[q] # "off"}
TaskOrder(q) == CHOOSE k \in DOMAIN consumer_tasks : consumer_tasks[k] = q
DeliveriesTo(q) == {d \in Deliveries : body[dl[d].msg].topic = q}

\* C30.  Cooperative shutdown: the lifespan cancels the started tasks in the
\* order of their creation and awaits each, so that at the end of the
\* shutdown every started task has ended; the one step a task takes once it
\* is cancelled is its end, in which no handler is called and no delete is
\* issued; a task that has ended stays ended, has no message in processing,
\* and no delivery of its topic is received, handled or deleted any more.
C30_State ==
  /\ pc[Lifespan] = "complete" => \A q \in Started : pc[q] = "cancelled"
  /\ pc[Lifespan] = "serving" => \A q \in Started : pc[q] # "cancelled"
  /\ \A q \in Started :
       /\ pc[Lifespan] = q =>
            \A o \in Started :
              /\ TaskOrder(o) < TaskOrder(q) => pc[o] = "cancelled"
              /\ TaskOrder(o) > TaskOrder(q) => pc[o] # "cancelled"
       /\ pc[q] = "cancelled" =>
            /\ batch[q] = <<>>
            /\ \A d \in DeliveriesTo(q) : dl[d].st # "processing"
C30_Unchanged(q) ==
  /\ DeliveriesTo(q)' = DeliveriesTo(q)
  /\ \A d \in DeliveriesTo(q) :
       dl'[d].calls = dl[d].calls /\ dl'[d].deletes = dl[d].deletes
C30_Step ==
  \A q \in Started :
    /\ (pc[Lifespan] = q /\ pc'[q] # pc[q]) =>
         pc'[q] = "cancelled" /\ C30_Unchanged(q)
    /\ pc[q] = "cancelled" =>
         /\ pc'[q] = "cancelled"
         /\ C30_Unchanged(q)
         /\ \A d \in DeliveriesTo(q) : dl'[d] = dl[d]
    /\ pc[Lifespan] = "complete" => pc' = pc /\ dl' = dl /\ vis' = vis
C30_CooperativeShutdown == []C30_State /\ [][C30_Step]_vars
\* The shutdown is complete; the usage task was cancelled in its counter
\* increment and the billing task in its delete, each leaving its message
\* abandoned.
C30_Witness ==
  /\ pc[Lifespan] = "complete"
  /\ pc["usage"] = "cancelled" /\ pc["stripe"] = "cancelled"
  /\ \E d1 \in DeliveriesTo("usage"), d2 \in DeliveriesTo("stripe") :
       /\ dl[d1].res = "cancelled" /\ dl[d1].st = "abandoned"
       /\ dl[d2].res = "returned" /\ dl[d2].err = "cancel" /\ dl[d2].st = "abandoned"


\* A well-formed usage message: valid JSON, workspace id, event type and a
\* positive value.
WellFormed(b) ==
  /\ b.topic = "usage" /\ parse_ok(b)
  /\ unwrap(b).workspace_id # None /\ unwrap(b).event_type # None
  /\ unwrap(b).valKind = "num" /\ unwrap(b).value > 0
\* Such a message with no provider customer or no provider meter for it.
NotFound(b) ==
  /\ WellFormed(b)
  /\ \/ unwrap(b).workspace_id \notin customers
     \/ EVENT_TYPE_TO_METER(unwrap(b).event_type) = None
NotFoundDeliveries == {d \in UsageDeliveries : NotFound(body[dl[d].msg])}

\* C31.  NotFound on the queued usage path: the handler call for a
\* well-formed usage message without provider customer or without provider
\* meter, its customer search having answered, returns in the step it is made
\* in, leaving the provider totals and the counters as they were, and the
\* loop goes on to the delete; such a delivery never has a push or an
\* increment, raises only when the customer search itself failed, and a
\* delivery that was acked leaves its message deleted.
C31_State ==
  \A d \in NotFoundDeliveries :
    /\ ~dl[d].pushed /\ dl[d].incr = "none"
    /\ dl[d].res = "raised" => dl[d].err = "raise_lookup"
    /\ dl[d].res = "returned" =>
         /\ dl[d].deletes = 1
         /\ dl[d].err \in {"drop_no_customer", "drop_unknown_type", "delete", "cancel"}
    /\ dl[d].st = "acked" => dl[d].res = "returned" /\ vis[dl[d].msg] = "deleted"
C31_Step ==
  \A d \in NotFoundDeliveries :
    d \in DOMAIN dl' /\ dl[d].calls = 0 /\ dl'[d].calls = 1 =>
      /\ metered' = metered /\ counter' = counter
      /\ \/ dl'[d].res = "raised" /\ dl'[d].err = "raise_lookup"
         \/ /\ dl'[d].res = "returned" /\ pc'["usage"] = "delete"
            /\ dl'[d].err = IF EventOf(d).workspace_id \notin customers
                               THEN "drop_no_customer" ELSE "drop_unknown_type"
C31_NotFoundDropped == []C31_State /\ [][C31_Step]_vars
\* An event of a workspace without customer and an event of a type without
\* meter were handled and acked; nothing was pushed or counted and no
\* message is left.
C31_Witness ==
  /\ \A m \in MsgIds : vis[m] = "deleted"
  /\ \A k \in MeteredKeys : metered[k] = 0
  /\ \A k \in CounterKeys : counter[k] = Absent
  /\ \E d1, d2 \in NotFoundDeliveries :
       /\ dl[d1].st = "acked" /\ dl[d2].st = "acked"
       /\ EventOf(d1).workspace_id = "ws_1"
       /\ EventOf(d2).event_type = "sms_send"


\* The record() calls whose increment was applied to the counter key k after
\* its first reset, and the sum of their values.
RecordedSince(k) ==
  {i \in Slots : /\ req[i].op = "record" /\ req[i].pc = "done"
                 /\ USAGE_COUNTER_KEY(req[i].w, req[i].meter) = k
                 /\ req[i].after >= 1}
RECURSIVE SumRecorded(_)
SumRecorded(S) ==
  IF S = {} THEN 0
  ELSE LET i == CHOOSE j \in S : TRUE IN req[i].value + SumRecorded(S \ {i})

\* C32.  Re-processable rollover: once a counter has been reset by a renewal
\* event, however often the event is handled, the counter holds the sum of
\* the increments applied to it since the first reset.
C32_RolloverReprocessable ==
  \A k \in CounterKeys :
    resets_of(k) # {} => get_float(counter, k) = SumRecorded(RecordedSince(k))


\* The record() calls that pushed to the provider meter k and have not
\* raised.
RecordedTo(k) ==
  {i \in Recorded : <<req[i].w, EVENT_TYPE_TO_METER(req[i].meter)>> = k}

\* C33.  Synchronous record is all-or-nothing on failure: the provider
\* total of every meter is the sum of the values of the record() calls that
\* pushed to it and have not raised, so that a call that raised has left
\* nothing in it.
C33_RecordAllOrNothing ==
  \A k \in MeteredKeys : metered[k] = SumRecorded(RecordedTo(k))


\* The event type a meter string stands for: itself when it is the name of
\* an event type, else the event type pushed to the provider meter of that
\* name.
EventTypeOf(M) ==
  IF M \in UsageEventType THEN M
  ELSE CHOOSE et \in UsageEventType : EVENT_TYPE_TO_METER(et) = M
\* The usage recorded for event type et of workspace w since the last reset.
RecordedUsage(w, et) ==
  base[USAGE_COUNTER_KEY(w, et)] + SumSeq(incs[USAGE_COUNTER_KEY(w, et)])

\* C34.  Meter key consistency: a check_usage_limit(W, M) call that answers
\* when the usage recorded for M's event type since the last reset has
\* reached the limit the plan sets for M's meter, answers TRUE.
C34_MeterKeyConsistency ==
  [][\A i \in Slots :
       (req'[i].op = "check" /\ req'[i].pc = "done" /\ req[i].pc # "done") =>
         LET w == req'[i].w
             et == EventTypeOf(req'[i].meter)
             limits == subs[w][1].limits
         IN (/\ EVENT_TYPE_TO_METER(et) \in DOMAIN limits
             /\ RecordedUsage(w, et) >= limits[EVENT_TYPE_TO_METER(et)]) =>
              req'[i].result]_vars


\* The workspace the handler of topic q acts for on the event ev.
WorkspaceOf(q, ev) ==
  CASE q = "usage" -> ev.workspace_id
    [] q = "stripe" -> handle_stripe_event(ev)
    [] q = "payment" -> handle_payment_event(ev)[2]
\* The step is one of the API call in slot i, or of the handler of topic q
\* in one of its store commands.
StepOfCall(i) == req'[i] # req[i]
StepOfHandler(q) ==
  /\ pc[q] \in {"incr", "inval", "reset"}
  /\ pc'[q] # pc[q] \/ ridx'[q] # ridx[q]
\* The meter of the counter command the handler of topic q is in.
MeterOf(q) ==
  IF pc[q] = "reset" THEN UsageEventTypeSeq[ridx[q]]
  ELSE EventOf(Cur(q)).event_type

\* C35.  Isolation: a step that changes the cache entry or a counter of
\* workspace W is a step of an API call for W or of a handler acting for W;
\* a step that changes the counter of meter M is one of a record() call for
\* M, of the usage handler of an event of type M, or of the reset of M; and
\* no step changes both a cache entry and a counter.
C35_Isolation ==
  [][/\ \A w \in Workspaces :
          (cache'[w] # cache[w] \/ \E m \in MeterKeys : counter'[<<w, m>>] # counter[<<w, m>>]) =>
            \/ \E i \in Slots : StepOfCall(i) /\ req[i].w = w
            \/ \E q \in Topics : StepOfHandler(q) /\ WorkspaceOf(q, EventOf(Cur(q))) = w
     /\ \A k \in CounterKeys :
          counter'[k] # counter[k] =>
            \/ \E i \in Slots : StepOfCall(i) /\ req[i].op = "record" /\ req[i].meter = k[2]
            \/ \E q \in {"usage", "stripe"} :
                 StepOfHandler(q) /\ pc[q] \in {"incr", "reset"} /\ MeterOf(q) = k[2]
     /\ cache' = cache \/ counter' = counter]_vars
\* The renewal of ws_2 was handled and a record() call for ws_2 has counted
\* an email: ws_2 has no entry, its ai_credits counter is 0 and its email
\* counter 1, while ws_1 has its entry and all its counters as at the start.
C35_Witness ==
  /\ cache["ws_2"] = <<>> /\ cache["ws_1"] # <<>>
  /\ counter[<<"ws_2", "ai_credits">>] = 0
  /\ counter[<<"ws_2", "email_send">>] = 1
  /\ \A m \in MeterKeys : counter[<<"ws_1", m>>] = 2
  /\ \E d \in StripeDeliveries : dl[d].st = "acked" /\ dl[d].resets = UsageEventType
  /\ \E i \in Slots : req[i].op = "record" /\ req[i].pc = "done"


\* The positions of a loop inside its for loop, past "take".
InMessage == {"handle", "incr", "inval", "reset", "delete"}
InBatch(q) == {batch[q][j] : j \in DOMAIN batch[q]}

\* C36.  Batch processing within one loop: a running loop is at exactly one
\* message of its batch, the messages before it are finished (acked or
\* abandoned), those after it are untouched, and every delivery outside
\* the batch is finished, so at most one handler runs per loop; the loop
\* polls only with no batch at hand; the loop moves through the batch one
\* position at a time and lets go of it only after its last message; a
\* handler that raises on a message that is not the last moves the loop to
\* the next message of the same batch; and a handler that returns is
\* followed by the delete of its message.
C36_State ==
  \A q \in Topics : pc[q] \notin {"off", "cancelled"} =>
    /\ (pc[q] \in {"poll", "sleep"}) <=> (batch[q] = <<>>)
    /\ batch[q] # <<>> => idx[q] \in DOMAIN batch[q]
    /\ \A d \in DeliveriesTo(q) \ InBatch(q) : dl[d].st \in {"acked", "abandoned"}
    /\ \A j \in DOMAIN batch[q] :
         LET r == dl[batch[q][j]] IN
           /\ j < idx[q] => r.st \in {"acked", "abandoned"}
           /\ j > idx[q] => r.st = "received" /\ r.calls = 0 /\ r.res = "none"
           /\ j = idx[q] =>
                /\ (r.st = "received") <=> (pc[q] = "take")
                /\ (r.st = "processing") <=> (pc[q] \in InMessage)
    /\ Cardinality({d \in DeliveriesTo(q) : dl[d].st = "processing"}) <= 1
C36_Step ==
  \A q \in Topics : pc'[q] # "cancelled" =>
    /\ batch'[q] # batch[q] =>
         \/ batch[q] = <<>> /\ pc[q] = "poll" /\ idx'[q] = 1 /\ pc'[q] = "take"
         \/ batch'[q] = <<>> /\ idx[q] = Len(batch[q]) /\ pc[q] \in InMessage
    /\ (idx'[q] # idx[q] /\ batch'[q] = batch[q]) =>
         idx'[q] = idx[q] + 1 /\ pc'[q] = "take" /\ pc[q] \in InMessage
    /\ \A d \in DeliveriesTo(q) :
         /\ (dl[d].res = "none" /\ dl'[d].res = "raised") =>
              /\ d = Cur(q) /\ dl'[d].st = "abandoned" /\ dl'[d].deletes = 0
              /\ IF idx[q] < Len(batch[q])
                   THEN pc'[q] = "take" /\ idx'[q] = idx[q] + 1 /\ batch'[q] = batch[q]
                   ELSE pc'[q] = "poll" /\ batch'[q] = <<>>
         /\ (dl[d].res = "none" /\ dl'[d].res = "returned") =>
              d = Cur(q) /\ pc'[q] = "delete" /\ dl'[d].deletes = 1
    /\ pc[q] = "take" => pc'[q] \in {"take", "handle"}
C36_BatchProcessing == []C36_State /\ [][C36_Step]_vars
\* The handler raised on the first message of a batch of two, the handler
\* of the second returned and the loop is in the delete of the second.
C36_Witness ==
  \E q \in Topics :
    /\ Len(batch[q]) = 2 /\ idx[q] = 2 /\ pc[q] = "delete"
    /\ dl[batch[q][1]].res = "raised" /\ dl[batch[q][1]].st = "abandoned"
    /\ dl[batch[q][2]].res = "returned" /\ dl[batch[q][2]].deletes = 1


\* The deliveries whose handler returned and whose delete then failed.
DeleteFailed == {d \in Deliveries : dl[d].err = "delete"}
\* The later deliveries of the message of d.
Redeliveries(d) == {e \in DeliveriesOf(dl[d].msg) : e > d}

\* C37.  Delete failure after a successful handler: the delivery ends as
\* abandoned with its one delete issued and its message still in the queue
\* (it is gone only once a later delivery of it was acked); the step of
\* the failing delete takes the loop to the next message of the batch (to
\* the poll after the last one) without sleeping and without counting a
\* failed poll, and changes nothing else; and a later delivery of the
\* message has its handler called again, whose push and increment add to
\* those of the first delivery.
C37_State ==
  \A d \in DeleteFailed :
    /\ dl[d].res = "returned" /\ dl[d].st = "abandoned" /\ dl[d].deletes = 1
    /\ vis[dl[d].msg] = "deleted" => \E e \in Redeliveries(d) : dl[e].st = "acked"
    /\ \A e \in Redeliveries(d) :
         LET ev == EventOf(e)
             k == <<ev.workspace_id, ev.event_type>>
         IN /\ dl[e].pushed =>
                 /\ dl[d].pushed
                 /\ metered[<<ev.workspace_id, EVENT_TYPE_TO_METER(ev.event_type)>>] >= 2 * ev.value
            /\ (dl[e].incr = "ok" /\ dl[d].incr = "ok") =>
                 get_float(counter, k) >= 2 * ev.value
C37_Step ==
  \A q \in Topics :
    /\ (pc[q] = "delete" /\ Cur(q) \notin DeleteFailed /\ dl'[Cur(q)].err = "delete") =>
         /\ pc'[q] = IF idx[q] < Len(batch[q]) THEN "take" ELSE "poll"
         /\ idx[q] < Len(batch[q]) => idx'[q] = idx[q] + 1 /\ batch'[q] = batch[q]
         /\ delay' = delay /\ fails' = fails
         /\ UNCHANGED <<vis, providerVars, storeVars>>
    /\ (pc[q] = "handle" /\ pc'[q] # "handle" /\ parse_ok(body[dl[Cur(q)].msg])
          /\ \E d \in DeleteFailed : Cur(q) \in Redeliveries(d)) =>
         dl'[Cur(q)].calls = 1
C37_DeleteFailure == []C37_State /\ [][C37_Step]_vars
\* The delete of a pushed and counted usage message failed, the message was
\* delivered again and was pushed and counted a second time.
C37_Witness ==
  \E d \in DeleteFailed : \E e \in Redeliveries(d) :
    /\ dl[d].pushed /\ dl[d].incr = "ok"
    /\ dl[e].pushed /\ dl[e].incr = "ok"
    /\ get_float(counter, <<EventOf(e).workspace_id, EventOf(e).event_type>>) = 2 * EventOf(e).value


\* The feature checks that have returned.
FeatureChecked == {i \in Slots : req[i].op = "feature" /\ req[i].pc = "done"}

\* C38.  Feature check: a check_feature_access(W, F) call that returned
\* holds the snapshot its get(W) obtained and has answered TRUE exactly
\* when that snapshot lists F and has has_active_subscription; and for a
\* workspace with no provider customer or with no active or trialing
\* subscription the answer is FALSE for every feature, ai_chat of the free
\* tier included.
C38_FeatureCheck ==
  \A i \in FeatureChecked :
    LET w == req[i].w
        snap == req[i].snap[1]
    IN /\ req[i].snap # <<>> /\ snap.workspace_id = w /\ req[i].status = 200
       /\ req[i].result <=> (req[i].feature \in snap.features /\ snap.has_active_subscription)
       /\ (w \notin customers \/ subs[w] = <<>>
             \/ subs[w][1].status \notin {"active", "trialing"}) =>
            /\ ~req[i].result
            /\ snap.features = PLAN_FEATURES["free"] /\ ~snap.has_active_subscription
       /\ (w \in customers /\ subs[w] # <<>> /\ subs[w][1].status \in {"active", "trialing"}) =>
            (req[i].result <=> req[i].feature \in product_features(subs[w][1]))
\* A check of ai_chat, a feature of the free tier, has answered FALSE for a
\* workspace without active subscription, and a check has answered TRUE.
C38_Witness ==
  \E i, j \in FeatureChecked :
    /\ req[i].w = "ws_1" /\ req[i].feature = "ai_chat" /\ ~req[i].result
    /\ "ai_chat" \in req[i].snap[1].features
    /\ req[j].w = "ws_2" /\ req[j].result


\* A body json.loads raises on, or a usage event whose value float() raises
\* on.
Unparseable(b) ==
  \/ ~b.json \/ b.envelope = "sns_bad"
  \/ b.topic = "usage" /\ b.valKind = "text"
UnparseableMsgs == {m \in MsgIds : Unparseable(body[m])}

\* C39.  Unparseable messages are never acked: such a message stays in the
\* queue; none of its deliveries is acked, has a delete issued, a push made
\* or a counter incremented, and a delivery that ended is abandoned with
\* the exception of the parse or of the value conversion; the step that
\* handles it changes neither the provider's totals nor the store nor the
\* queue and takes the loop to the next message of the batch, without
\* sleeping; and after a visibility timeout it is received again.
C39_State ==
  \A m \in UnparseableMsgs :
    /\ vis[m] \in {"visible", "inflight"}
    /\ \A d \in DeliveriesOf(m) :
         /\ dl[d].st \in {"received", "processing", "abandoned"}
         /\ dl[d].deletes = 0 /\ ~dl[d].pushed /\ dl[d].incr = "none"
         /\ dl[d].st = "abandoned" =>
              dl[d].res = "raised" /\ dl[d].err \in {"parse", "raise_value"}
C39_Step ==
  \A q \in Topics :
    (pc[q] = "handle" /\ dl[Cur(q)].msg \in UnparseableMsgs /\ pc'[q] # pc[q]) =>
      /\ dl'[Cur(q)].st = "abandoned"
      /\ pc'[q] = IF idx[q] < Len(batch[q]) THEN "take" ELSE "poll"
      /\ idx[q] < Len(batch[q]) => idx'[q] = idx[q] + 1 /\ batch'[q] = batch[q]
      /\ delay' = delay /\ fails' = fails
      /\ UNCHANGED <<vis, providerVars, storeVars>>
C39_UnparseableNeverAcked == []C39_State /\ [][C39_Step]_vars
\* An unparseable message was delivered and abandoned twice and is visible
\* again after its second visibility timeout.
C39_Witness ==
  \E m \in UnparseableMsgs :
    /\ Cardinality(DeliveriesOf(m)) = 2
    /\ \A d \in DeliveriesOf(m) : dl[d].st = "abandoned"
    /\ expc[m] = 2 /\ vis[m] = "visible"


\* The message m is gone from the queue after a delivery whose handler
\* returned and whose delete succeeded: a usage event was pushed, a billing
\* event deleted its workspace's entry, a payment marked its invoice paid.
Handled(m) ==
  /\ vis[m] = "deleted"
  /\ \E d \in DeliveriesOf(m) :
       /\ dl[d].st = "acked" /\ dl[d].res = "returned"
       /\ body[m].topic = "usage" => dl[d].pushed
       /\ body[m].topic = "stripe" => dl[d].inval
       /\ body[m].topic = "payment" => dl[d].paid

\* C40.  Eventual convergence: with a running loop that is scheduled,
\* redelivery after the visibility timeout and calls that stop failing,
\* every well-formed message in a queue is eventually handled and deleted:
\* a usage event of a workspace with a customer with a successful push, an
\* invalidating billing event with the deletion of its workspace's entry.
C40_EventualConvergence ==
  \A m \in MsgIds : (vis[m] # "deleted") ~> Handled(m)
\* A message whose first delivery failed was delivered again and handled.
C40_Witness ==
  \E m \in MsgIds :
    /\ Handled(m)
    /\ \E d \in DeliveriesOf(m) : dl[d].st = "abandoned" /\ dl[d].res = "raised"

============================================================================
